---- MODULE Spec2Model ----
(***************************************************************************)
(* Windcave settlement reconciliation for NetSuite: the scheduled          *)
(* coordinator (execute / processSettlement), the reconciliation library   *)
(* (findNetSuiteTransaction, findNetSuiteTransactionByAuthCode,            *)
(* validatePaymentForDeposit, matchTransactions, createBankDeposit,        *)
(* manualMatchTransaction, createSupplementaryDeposit) and the ledger's    *)
(* undeposited-funds list that is shared with actors outside the system.   *)
(*                                                                         *)
(* Amounts are fixed-point integers in units of 0.0001.  Strings that the  *)
(* code trims, cleans or compares (references, document numbers, internal  *)
(* ids, auth codes) are sequences of one-character strings; the empty      *)
(* sequence stands for null, undefined and '' alike, which every code path *)
(* treats the same way (`!x`, `x || ''`).                                  *)
(***************************************************************************)
EXTENDS Integers, Sequences, FiniteSets, TLC

\* ------------------------------------------------------------------ bounds
MaxRuns == 2
MaxFaults == 1
MaxExternal == 1
MaxOperatorOps == 2
MaxBatch == 2

\* --------------------------------------------------------------- constants
\* constants.MISC.AMOUNT_TOLERANCE = 0.01, in units of 0.0001
AMOUNT_TOLERANCE == 100
\* governance thresholds of execute()
CONFIG_USAGE_THRESHOLD == 1000
SETTLEMENT_USAGE_THRESHOLD == 500
\* shouldRunNow: config.scheduleHour || 6
DEFAULT_SCHEDULE_HOUR == 6
\* the clock counts half hours
TICKS_PER_HOUR == 2
HOURS_PER_DAY == 24

ERR_REFUND == "Refund transactions require manual handling"
ERR_NO_MATCHING_PAYMENT == "No matching NetSuite payment found"
ERR_PAYMENT_ALREADY_DEPOSITED == "Payment has already been deposited"
ERR_AMOUNT_MISMATCH == "Transaction amount does not match payment amount"
ERR_LOW_GOVERNANCE == "Processing stopped due to low governance"
ERR_NO_PENDING == "No matched transactions pending deposit"
ERR_NOT_IN_UNDEPOSITED == "No payments found in undeposited funds. Payments may have already been deposited elsewhere."
ERR_SETTLEMENT_NOT_FOUND == "Settlement not found"
ERR_NS_NOT_FOUND == "NetSuite transaction not found"
ERR_STORE_FAULT == "store fault"
ERR_API_FAULT == "Windcave API request failed"
ERR_API_AUTH_FAILED == "Windcave API authentication failed"
ERR_CONFIG_NOT_FOUND == "Windcave configuration record not found"
ERR_CONFIG_LOAD == "Could not load configuration"
ERR_REQUEST_TIMEOUT == "SSS_REQUEST_TIME_EXCEEDED"
\* constants.MISC.MAX_API_RETRIES
MAX_API_RETRIES == 3

\* ------------------------------------------------------------ string model
Digits == {"0", "1", "2", "3", "4", "5", "6", "7", "8", "9"}

IsDigit(c) == c \in Digits

\* s.replace(/\D/g, '')
CleanRef(s) == SelectSeq(s, IsDigit)

\* !s || s.trim() === ''
IsBlank(s) == \A i \in 1..Len(s) : s[i] = " "

Abs(x) == IF x < 0 THEN -x ELSE x

RECURSIVE SumSeq(_)
SumSeq(s) == IF s = <<>> THEN 0 ELSE Head(s) + SumSeq(Tail(s))

\* ------------------------------------------------------------- makeRequest
\* One activation of makeRequest: its retryCount and where it stands: at
\* https.get ("get"), waiting for the call it made in the try block ("try")
\* or for the call it made in the catch block ("catch").
RequestFrame(retryCount, site) == [retryCount |-> retryCount, site |-> site]

ErrorOf(name, message) == [name |-> name, message |-> message]

Running(stack) == [stack |-> stack, status |-> "running", error |-> ""]

\* the activation on top calls makeRequest({retryCount: retryCount + 1}) from
\* the place given
Recurse(stack, site) ==
  LET top == stack[Len(stack)] IN
  Running(Append([stack EXCEPT ![Len(stack)] = RequestFrame(top.retryCount, site)],
                 RequestFrame(top.retryCount + 1, "get")))

RECURSIVE Propagate(_, _)
RECURSIVE Catch(_, _)
\* the catch block of the activation on top of the stack, entered with e
Catch(stack, e) ==
  IF e.name = ERR_REQUEST_TIMEOUT /\ stack[Len(stack)].retryCount < MAX_API_RETRIES
  THEN Recurse(stack, "catch")
  ELSE Propagate(SubSeq(stack, 1, Len(stack) - 1), e)

\* e leaves an activation: the one below it catches e if it made the call
\* inside its try block, and lets it through if it made the call in its catch
\* block
Propagate(stack, e) ==
  IF stack = <<>> THEN [stack |-> <<>>, status |-> "thrown", error |-> e.message]
  ELSE IF stack[Len(stack)].site = "try" THEN Catch(stack, e)
  ELSE Propagate(SubSeq(stack, 1, Len(stack) - 1), e)

\* variant: a server error is retried whatever the retry count
makeRequestServerErrorRetried(stack, response) ==
  IF response = "timeout" THEN Catch(stack, ErrorOf(ERR_REQUEST_TIMEOUT, ERR_REQUEST_TIMEOUT))
  ELSE IF response = "2xx" THEN [stack |-> <<>>, status |-> "returned", error |-> ""]
  ELSE IF response = "401/403" THEN Catch(stack, ErrorOf("Error", ERR_API_AUTH_FAILED))
  ELSE IF response = "5xx" THEN Recurse(stack, "try")
  ELSE Catch(stack, ErrorOf("Error", ERR_API_FAULT))

\* What the activation on top does with the outcome of its https.get, up to
\* the next https.get or to the end of the top-level call.
makeRequest(stack, response) ==
  LET retryCount == stack[Len(stack)].retryCount IN
  IF response = "timeout" THEN Catch(stack, ErrorOf(ERR_REQUEST_TIMEOUT, ERR_REQUEST_TIMEOUT))
  ELSE IF response = "2xx" THEN [stack |-> <<>>, status |-> "returned", error |-> ""]
  ELSE IF response = "401/403" THEN Catch(stack, ErrorOf("Error", ERR_API_AUTH_FAILED))
  ELSE IF response = "5xx" /\ retryCount < MAX_API_RETRIES THEN Recurse(stack, "try")
  ELSE Catch(stack, ErrorOf("Error", ERR_API_FAULT))

\* ----------------------------------------------------------- ledger (host)
\* The ledger's payment-like records in store order.  undepAccount says
\* whether the record's account name contains "undeposited".
Ledger ==
  << [internalId |-> <<"1","1">>, kind |-> "CustPymt", tranId |-> <<"1","0","0","1">>,
      amount |-> 1000000, undepAccount |-> TRUE,  authCode |-> <<"A","1">>, pnref |-> <<>>],
     [internalId |-> <<"8">>,     kind |-> "CustPymt", tranId |-> <<"8">>,
      amount |-> 200000,  undepAccount |-> TRUE,  authCode |-> <<"A","2">>, pnref |-> <<"T","5">>],
     [internalId |-> <<"1","3">>, kind |-> "CustPymt", tranId |-> <<"9">>,
      amount |-> 500000,  undepAccount |-> TRUE,  authCode |-> <<"A","1">>, pnref |-> <<>>],
     [internalId |-> <<"1","4">>, kind |-> "CashSale", tranId |-> <<"5">>,
      amount |-> 300000,  undepAccount |-> FALSE, authCode |-> <<>>,        pnref |-> <<>>],
     [internalId |-> <<"1","5">>, kind |-> "CustPymt", tranId |-> <<"6">>,
      amount |-> 1000050, undepAccount |-> FALSE, authCode |-> <<"A","1">>, pnref |-> <<>>] >>

LedgerIds == {Ledger[i].internalId : i \in 1..Len(Ledger)}

\* the value the code calls null for a ledger lookup
NoTxn == [found |-> FALSE, internalId |-> <<>>, tranId |-> <<>>, amount |-> 0,
          undepositedFunds |-> "F"]

\* the object the lookups build from a search result row
TxnInfo(row) == [found |-> TRUE, internalId |-> row.internalId, tranId |-> row.tranId,
                 amount |-> row.amount,
                 undepositedFunds |-> IF row.undepAccount THEN "T" ELSE "F"]

SearchByTranId(kind, cleanRef) ==
  SelectSeq(Ledger, LAMBDA row : row.kind = kind /\ row.tranId = cleanRef)

findNetSuiteTransaction(merchantReference) ==
  IF IsBlank(merchantReference) THEN NoTxn
  ELSE LET cleanRef == CleanRef(merchantReference) IN
       IF cleanRef = <<>> THEN NoTxn
       ELSE LET results == SearchByTranId("CustPymt", cleanRef)
                cashResults == SearchByTranId("CashSale", cleanRef)
            IN IF results = <<>>
               THEN IF cashResults = <<>> THEN NoTxn ELSE TxnInfo(cashResults[1])
               ELSE TxnInfo(results[1])

SearchByAuth(authCode, transactionId) ==
  SelectSeq(Ledger, LAMBDA row :
     /\ row.kind = "CustPymt"
     /\ \/ (~IsBlank(authCode) /\ row.authCode = authCode)
        \/ (~IsBlank(transactionId) /\ row.pnref = transactionId))

WithinTolerance(a, b) == Abs(a - b) <= AMOUNT_TOLERANCE

\* variant: of several candidates within the tolerance the last one is taken
findNetSuiteTransactionByAuthCodeLastClose(authCode, amount, transactionId) ==
  IF IsBlank(authCode) /\ IsBlank(transactionId) THEN NoTxn
  ELSE LET results == SearchByAuth(authCode, transactionId)
           close == SelectSeq(results, LAMBDA row : WithinTolerance(row.amount, amount))
       IN IF results = <<>> THEN NoTxn
          ELSE IF close # <<>> THEN TxnInfo(close[Len(close)])
          ELSE IF Len(results) = 1 THEN TxnInfo(results[1])
          ELSE NoTxn

findNetSuiteTransactionByAuthCode(authCode, amount, transactionId) ==
  IF IsBlank(authCode) /\ IsBlank(transactionId) THEN NoTxn
  ELSE LET results == SearchByAuth(authCode, transactionId)
           close == SelectSeq(results, LAMBDA row : WithinTolerance(row.amount, amount))
       IN IF results = <<>> THEN NoTxn
          ELSE IF close # <<>> THEN TxnInfo(close[1])
          ELSE IF Len(results) = 1 THEN TxnInfo(results[1])
          ELSE NoTxn

\* variant: the amount is compared before the deposited flag is read
validateAmountFirst(nsTransaction, windcaveTxn) ==
  IF ~nsTransaction.found
  THEN [isValid |-> FALSE, error |-> ERR_NO_MATCHING_PAYMENT]
  ELSE IF Abs(nsTransaction.amount - windcaveTxn.amount) > AMOUNT_TOLERANCE
  THEN [isValid |-> FALSE, error |-> ERR_AMOUNT_MISMATCH]
  ELSE IF nsTransaction.undepositedFunds = "F"
  THEN [isValid |-> FALSE, error |-> ERR_PAYMENT_ALREADY_DEPOSITED]
  ELSE [isValid |-> TRUE, error |-> ""]

\* variant: a difference equal to the tolerance is rejected
validateStrictTolerance(nsTransaction, windcaveTxn) ==
  IF ~nsTransaction.found
  THEN [isValid |-> FALSE, error |-> ERR_NO_MATCHING_PAYMENT]
  ELSE IF nsTransaction.undepositedFunds = "F"
  THEN [isValid |-> FALSE, error |-> ERR_PAYMENT_ALREADY_DEPOSITED]
  ELSE IF Abs(nsTransaction.amount - windcaveTxn.amount) >= AMOUNT_TOLERANCE
  THEN [isValid |-> FALSE, error |-> ERR_AMOUNT_MISMATCH]
  ELSE [isValid |-> TRUE, error |-> ""]

validatePaymentForDeposit(nsTransaction, windcaveTxn) ==
  IF ~nsTransaction.found
  THEN [isValid |-> FALSE, error |-> ERR_NO_MATCHING_PAYMENT]
  ELSE IF nsTransaction.undepositedFunds = "F"
  THEN [isValid |-> FALSE, error |-> ERR_PAYMENT_ALREADY_DEPOSITED]
  ELSE IF Abs(nsTransaction.amount - windcaveTxn.amount) > AMOUNT_TOLERANCE
  THEN [isValid |-> FALSE, error |-> ERR_AMOUNT_MISMATCH]
  ELSE [isValid |-> TRUE, error |-> ""]

\* ------------------------------------------------ settlement source (host)
\* What the Windcave API holds: getSettlementDetails(id) returns the
\* settlement with its transactions; day is the settlement date.
Txn(id, ref, amount, type, auth) ==
  [id |-> id, merchantReference |-> ref, amount |-> amount, type |-> type, authCode |-> auth]

SourceSettlements ==
  [S1 |-> [id |-> "S1", status |-> "Done", CRDR |-> "CR", day |-> 0,
           transactions |->
             << Txn(<<"T","1">>, <<"1","0","0","1">>, 1000000, "Purchase", <<"A","1">>),
                Txn(<<"T","2">>, <<"8">>, 200000, "Refund", <<>>) >>],
   S2 |-> [id |-> "S2", status |-> "Done", CRDR |-> "CR", day |-> 0,
           transactions |->
             << Txn(<<"T","3">>, <<"#","9">>, 500100, "Purchase", <<>>),
                Txn(<<"T","4">>, <<"7","7">>, 200000, "Purchase", <<>>),
                Txn(<<"T","8">>, <<"8">>, 200000, "Purchase", <<>>) >>],
   S3 |-> [id |-> "S3", status |-> "Done", CRDR |-> "DR", day |-> 1,
           transactions |->
             << Txn(<<"T","5">>, <<"x">>, 900000, "Purchase", <<>>),
                Txn(<<"T","6">>, <<" ">>, 500000, "Purchase", <<"A","1">>),
                Txn(<<"T","7">>, <<"5">>, 300000, "Purchase", <<>>) >>],
   S4 |-> [id |-> "S4", status |-> "Pending", CRDR |-> "CR", day |-> 1,
           transactions |-> << >>]]

SettlementIds == {"S1", "S2", "S3", "S4"}

\* The active configuration records, in the order loadAllConfigurations
\* returns them.  merchantSettlements lists what the source holds for the
\* configuration's merchant, in the order the API returns it.
Configurations ==
  << [internalId |-> 1, bankAccount |-> "B1", lookbackDays |-> 1, enableScheduled |-> TRUE,
      scheduleHour |-> 6, scheduleFreq |-> "daily", scheduleDay |-> 2, sendEmail |-> TRUE,
      notificationEmail |-> "ops@x.com", merchantSettlements |-> <<"S1", "S2", "S4">>],
     [internalId |-> 2, bankAccount |-> "B2", lookbackDays |-> 1, enableScheduled |-> TRUE,
      scheduleHour |-> 6, scheduleFreq |-> "daily", scheduleDay |-> 2, sendEmail |-> TRUE,
      notificationEmail |-> "ops@x.com", merchantSettlements |-> <<"S2", "S3">>] >>

NumConfigs == Len(Configurations)

\* remaining governance units, as the thresholds see them
UsageLevels == {2000, 800, 300}
InitialUsage == 2000

\* how far the clock may move between two triggers: 30 min, 1 h, 1 day
AdvanceChoices == {1, 2, 48}

\* what the operator may type as the NetSuite transaction of a manual match
ManualMatchInputs == { <<"8">>, <<"9">>, <<"1","3">>, <<"5">> }

\* ------------------------------------------------------------------- state
VARIABLES
  settlements,   \* customrecord_windcave_settlement rows; internal id = index
  txnDetails,    \* customrecord_windcave_txn_detail rows; internal id = index
  deposits,      \* saved Deposit records; internal id = index
  undeposited,   \* ledger ids on the deposit form's payment sublist
  cfgLastRun,    \* LAST_RUN_DATE per configuration, -1 when empty
  now,           \* the clock, in half hours
  pc,            \* where the coordinator is
  cfgIdx,        \* execute(): index of the configuration being processed
  listing,       \* execute(): settlements returned for that configuration
  sIdx,          \* execute(): index into listing
  usage,         \* runtime.getCurrentScript().getRemainingUsage()
  results,       \* execute(): processingResults
  configResult,  \* execute(): configResult of the current configuration
  cur,           \* processSettlement(): locals between matching and deposit
  emails,        \* execute(): notificationEmails
  notified,      \* addresses sendNotificationEmail was called with, last run
  lastOp,        \* the last operation and what it returned
  runs, faults, externalOps, operatorOps,
  deferred,      \* history: settlements a low-governance stop left unreached
  fetch,         \* performManualFetch(): the configurations and dates asked for
  active,        \* internal ids of the configuration records with IS_ACTIVE checked
  probe          \* inputs and result of a library function called on its own

vars == << settlements, txnDetails, deposits, undeposited, cfgLastRun, now, pc, cfgIdx,
           listing, sIdx, usage, results, configResult, cur, emails, notified, lastOp,
           runs, faults, externalOps, operatorOps, deferred, fetch, active, probe >>

\* ------------------------------------------------------------ configurations
AllConfigIds == {Configurations[c].internalId : c \in 1..NumConfigs}

\* variant: the search has no filter on IS_ACTIVE
loadAllConfigurationsAnyState(act) == Configurations

\* the configuration records the search with the filter IS_ACTIVE = 'T'
\* returns
loadAllConfigurations(act) ==
  SelectSeq(Configurations, LAMBDA c : c.internalId \in act)

\* const configurations = reconciliation.loadAllConfigurations()
Loaded == loadAllConfigurations(active)

\* ------------------------------------------------------------ time and gate
CurrentHour(t) == (t \div TICKS_PER_HOUR) % HOURS_PER_DAY
Today(t) == t \div (TICKS_PER_HOUR * HOURS_PER_DAY)
\* now.getDay() + 1, day 0 of the clock being a Sunday
CurrentDay(t) == (Today(t) % 7) + 1

\* variant: the time since the last run is not looked at
shouldRunNowNoInterval(config, lastRunDate, t) ==
  IF ~config.enableScheduled THEN FALSE
  ELSE LET scheduleHour == IF config.scheduleHour = 0 THEN DEFAULT_SCHEDULE_HOUR
                           ELSE config.scheduleHour
       IN IF CurrentHour(t) # scheduleHour THEN FALSE
          ELSE IF config.scheduleFreq = "weekly" /\ CurrentDay(t) # config.scheduleDay THEN FALSE
          ELSE TRUE

shouldRunNow(config, lastRunDate, t) ==
  IF ~config.enableScheduled THEN FALSE
  ELSE LET scheduleHour == IF config.scheduleHour = 0 THEN DEFAULT_SCHEDULE_HOUR
                           ELSE config.scheduleHour
       IN IF CurrentHour(t) # scheduleHour THEN FALSE
          ELSE IF config.scheduleFreq = "weekly" /\ CurrentDay(t) # config.scheduleDay THEN FALSE
          ELSE IF lastRunDate # -1 /\ t - lastRunDate < TICKS_PER_HOUR THEN FALSE
          ELSE TRUE

\* calculateDateRange + the source's date filter
InWindow(config, t, sid) ==
  /\ SourceSettlements[sid].day >= Today(t) - config.lookbackDays
  /\ SourceSettlements[sid].day <= Today(t)

getSettlements(config, t) ==
  SelectSeq(config.merchantSettlements, LAMBDA sid : InWindow(config, t, sid))

\* ------------------------------------------------------- persistence layer
\* variant: only a record that carries a bank deposit counts
isSettlementDeposited(store, settlementId) ==
  \E i \in 1..Len(store) : store[i].settlementId = settlementId /\ store[i].bankDeposit # 0

\* variant: only a record marked processed counts
isSettlementMarkedProcessed(store, settlementId) ==
  \E i \in 1..Len(store) : store[i].settlementId = settlementId /\ store[i].processed

isSettlementProcessed(store, settlementId) ==
  \E i \in 1..Len(store) : store[i].settlementId = settlementId

createSettlementRecord(settlementData) ==
  [settlementId |-> settlementData.id, crdr |-> settlementData.CRDR,
   processed |-> FALSE, matchedCount |-> 0, unmatchedCount |-> 0, matchedAmount |-> 0,
   bankDeposit |-> 0, errorMessage |-> ""]

createTransactionDetailRecord(transactionData, settlementInternalId) ==
  [parent |-> settlementInternalId, transactionId |-> transactionData.id,
   merchantReference |-> transactionData.merchantReference,
   amount |-> transactionData.amount, type |-> transactionData.type,
   authCode |-> transactionData.authCode,
   nsTransaction |-> <<>>, matched |-> FALSE, matchError |-> "",
   inDeposit |-> FALSE, bankDeposit |-> 0]

\* ------------------------------------------------------- matchTransactions
\* a library call made for a transaction of the batch
Call(fn, txn) == [fn |-> fn, txn |-> txn.id]

\* variant: the second strategy is also tried when the entry the reference
\* names fails validation
LocateTraceUntilValid(txn) ==
  LET byRef == findNetSuiteTransaction(txn.merchantReference)
  IN IF /\ ~validatePaymentForDeposit(byRef, txn).isValid
        /\ (txn.authCode # <<>> \/ txn.id # <<>>)
     THEN [entry |-> findNetSuiteTransactionByAuthCode(txn.authCode, txn.amount, txn.id),
           calls |-> << Call("findNetSuiteTransaction", txn),
                        Call("findNetSuiteTransactionByAuthCode", txn) >>]
     ELSE [entry |-> byRef, calls |-> << Call("findNetSuiteTransaction", txn) >>]

\* the two-strategy lookup of the loop body: the entry it ends with and the
\* lookups it made
LocateTrace(txn) ==
  LET byRef == findNetSuiteTransaction(txn.merchantReference)
  IN IF ~byRef.found /\ (txn.authCode # <<>> \/ txn.id # <<>>)
     THEN [entry |-> findNetSuiteTransactionByAuthCode(txn.authCode, txn.amount, txn.id),
           calls |-> << Call("findNetSuiteTransaction", txn),
                        Call("findNetSuiteTransactionByAuthCode", txn) >>]
     ELSE [entry |-> byRef, calls |-> << Call("findNetSuiteTransaction", txn) >>]

LocateEntry(txn) == LocateTrace(txn).entry

\* the calls of one iteration that gets as far as the lookups
IterationCalls(txn) ==
  << Call("createTransactionDetailRecord", txn) >> \o LocateTrace(txn).calls
    \o << Call("validatePaymentForDeposit", txn), Call("submitFields", txn) >>

\* variant: the loop body without the refund test
MatchOneNoRefundTest(txn, settlementInternalId, txnDetailId) ==
  LET created == createTransactionDetailRecord(txn, settlementInternalId)
      nsTransaction == LocateEntry(txn)
      validation == validatePaymentForDeposit(nsTransaction, txn)
  IN IF validation.isValid
     THEN [row |-> [created EXCEPT !.nsTransaction = nsTransaction.internalId,
                                   !.matched = TRUE],
           isMatch |-> TRUE, calls |-> IterationCalls(txn),
           item |-> [txnDetailId |-> txnDetailId, windcaveTxn |-> txn,
                     nsTransaction |-> nsTransaction, error |-> ""]]
     ELSE [row |-> [created EXCEPT !.matchError = validation.error],
           isMatch |-> FALSE, calls |-> IterationCalls(txn),
           item |-> [txnDetailId |-> txnDetailId, windcaveTxn |-> txn,
                     nsTransaction |-> NoTxn, error |-> validation.error]]

\* one iteration of the loop: the detail row as it is left in the store and
\* the entry pushed on matched or unmatched
MatchOne(txn, settlementInternalId, txnDetailId) ==
  LET created == createTransactionDetailRecord(txn, settlementInternalId)
      nsTransaction == LocateEntry(txn)
      validation == validatePaymentForDeposit(nsTransaction, txn)
  IN IF txn.type = "Refund"
     THEN [row |-> created, isMatch |-> FALSE,
           calls |-> << Call("createTransactionDetailRecord", txn) >>,
           item |-> [txnDetailId |-> txnDetailId, windcaveTxn |-> txn,
                     nsTransaction |-> NoTxn, error |-> ERR_REFUND]]
     ELSE IF validation.isValid
     THEN [row |-> [created EXCEPT !.nsTransaction = nsTransaction.internalId,
                                   !.matched = TRUE],
           isMatch |-> TRUE, calls |-> IterationCalls(txn),
           item |-> [txnDetailId |-> txnDetailId, windcaveTxn |-> txn,
                     nsTransaction |-> nsTransaction, error |-> ""]]
     ELSE [row |-> [created EXCEPT !.matchError = validation.error],
           isMatch |-> FALSE, calls |-> IterationCalls(txn),
           item |-> [txnDetailId |-> txnDetailId, windcaveTxn |-> txn,
                     nsTransaction |-> NoTxn, error |-> validation.error]]

\* variant: a refund is passed over before its record is created
RECURSIVE MatchLoopRefundsDropped(_, _, _, _)
MatchLoopRefundsDropped(transactions, n, settlementInternalId, store) ==
  IF n = 0 THEN [store |-> store, matched |-> <<>>, unmatched |-> <<>>, calls |-> <<>>]
  ELSE LET before == MatchLoopRefundsDropped(transactions, n - 1, settlementInternalId, store)
           one == MatchOne(transactions[n], settlementInternalId, Len(before.store) + 1)
       IN IF transactions[n].type = "Refund" THEN before
          ELSE [store |-> Append(before.store, one.row),
                calls |-> before.calls \o one.calls,
                matched |-> IF one.isMatch THEN Append(before.matched, one.item)
                            ELSE before.matched,
                unmatched |-> IF one.isMatch THEN before.unmatched
                              ELSE Append(before.unmatched, one.item)]

\* the loop over the first n transactions, starting from the store given
RECURSIVE MatchLoop(_, _, _, _)
MatchLoop(transactions, n, settlementInternalId, store) ==
  IF n = 0 THEN [store |-> store, matched |-> <<>>, unmatched |-> <<>>, calls |-> <<>>]
  ELSE LET before == MatchLoop(transactions, n - 1, settlementInternalId, store)
           one == MatchOne(transactions[n], settlementInternalId, Len(before.store) + 1)
       IN [store |-> Append(before.store, one.row),
           calls |-> before.calls \o one.calls,
           matched |-> IF one.isMatch THEN Append(before.matched, one.item)
                       ELSE before.matched,
           unmatched |-> IF one.isMatch THEN before.unmatched
                         ELSE Append(before.unmatched, one.item)]

matchTransactions(transactions, settlementInternalId, store) ==
  MatchLoop(transactions, Len(transactions), settlementInternalId, store)

\* -------------------------------------------------------- deposit grouping
\* depositRecord.getSublistValue('payment','id',i), i = 0..lineCount-1: the
\* undeposited payments the deposit form offers, in store order
PaymentLines(undep) ==
  LET rows == SelectSeq(Ledger, LAMBDA row : row.internalId \in undep)
  IN [i \in 1..Len(rows) |-> rows[i].internalId]

\* candidates.find(c => String(c.nsId) === String(paymentId)): index of the
\* first candidate for the payment, 0 when there is none
FindCandidate(candidates, paymentId) ==
  IF \E k \in 1..Len(candidates) : candidates[k].nsId = paymentId
  THEN CHOOSE k \in 1..Len(candidates) :
         /\ candidates[k].nsId = paymentId
         /\ \A j \in 1..(k - 1) : candidates[j].nsId # paymentId
  ELSE 0

\* variant: the deposit is saved without the paymentsAdded test
GroupDepositNoEmptyTest(candidates, bankAccountId, sid, supplementary, store, deps, undep) ==
  LET lines == PaymentLines(undep)
      hit == {i \in 1..Len(lines) : FindCandidate(candidates, lines[i]) # 0}
      marked == {lines[i] : i \in hit}
      addedTxnDetailIds == {candidates[FindCandidate(candidates, lines[i])].txnDetailId : i \in hit}
      depositId == Len(deps) + 1
  IN [depositId |-> depositId,
      store |-> [i \in 1..Len(store) |->
                   IF i \in addedTxnDetailIds
                   THEN [store[i] EXCEPT !.inDeposit = TRUE, !.bankDeposit = depositId]
                   ELSE store[i]],
      deposits |-> Append(deps, [account |-> bankAccountId, payments |-> marked,
                                 settlement |-> sid, supplementary |-> supplementary]),
      undeposited |-> undep \ marked]

\* variant: the rows are flagged in-deposit without the deposit's id
GroupDepositFlagOnly(candidates, bankAccountId, sid, supplementary, store, deps, undep) ==
  LET lines == PaymentLines(undep)
      hit == {i \in 1..Len(lines) : FindCandidate(candidates, lines[i]) # 0}
      marked == {lines[i] : i \in hit}
      addedTxnDetailIds == {candidates[FindCandidate(candidates, lines[i])].txnDetailId : i \in hit}
      depositId == Len(deps) + 1
  IN IF hit = {}
     THEN [depositId |-> 0, store |-> store, deposits |-> deps, undeposited |-> undep]
     ELSE [depositId |-> depositId,
           store |-> [i \in 1..Len(store) |->
                        IF i \in addedTxnDetailIds
                        THEN [store[i] EXCEPT !.inDeposit = TRUE]
                        ELSE store[i]],
           deposits |-> Append(deps, [account |-> bankAccountId, payments |-> marked,
                                      settlement |-> sid, supplementary |-> supplementary]),
           undeposited |-> undep \ marked]

\* variant: the in-deposit flags of all rows are rewritten from the deposit
\* being saved
GroupDepositRewriteAll(candidates, bankAccountId, sid, supplementary, store, deps, undep) ==
  LET lines == PaymentLines(undep)
      hit == {i \in 1..Len(lines) : FindCandidate(candidates, lines[i]) # 0}
      marked == {lines[i] : i \in hit}
      addedTxnDetailIds == {candidates[FindCandidate(candidates, lines[i])].txnDetailId : i \in hit}
      depositId == Len(deps) + 1
  IN IF hit = {}
     THEN [depositId |-> 0, store |-> store, deposits |-> deps, undeposited |-> undep]
     ELSE [depositId |-> depositId,
           store |-> [i \in 1..Len(store) |->
                        IF i \in addedTxnDetailIds
                        THEN [store[i] EXCEPT !.inDeposit = TRUE, !.bankDeposit = depositId]
                        ELSE [store[i] EXCEPT !.inDeposit = FALSE, !.bankDeposit = 0]],
           deposits |-> Append(deps, [account |-> bankAccountId, payments |-> marked,
                                      settlement |-> sid, supplementary |-> supplementary]),
           undeposited |-> undep \ marked]

\* The loop over the payment lines, the paymentsAdded test, save() and the
\* submitFields loop, shared by createBankDeposit and
\* createSupplementaryDeposit.  candidates are [txnDetailId, nsId] pairs.
GroupDeposit(candidates, bankAccountId, sid, supplementary, store, deps, undep) ==
  LET lines == PaymentLines(undep)
      hit == {i \in 1..Len(lines) : FindCandidate(candidates, lines[i]) # 0}
      marked == {lines[i] : i \in hit}
      addedTxnDetailIds == {candidates[FindCandidate(candidates, lines[i])].txnDetailId : i \in hit}
      depositId == Len(deps) + 1
  IN IF hit = {}
     THEN [depositId |-> 0, store |-> store, deposits |-> deps, undeposited |-> undep]
     ELSE [depositId |-> depositId,
           store |-> [i \in 1..Len(store) |->
                        IF i \in addedTxnDetailIds
                        THEN [store[i] EXCEPT !.inDeposit = TRUE, !.bankDeposit = depositId]
                        ELSE store[i]],
           deposits |-> Append(deps, [account |-> bankAccountId, payments |-> marked,
                                      settlement |-> sid, supplementary |-> supplementary]),
           undeposited |-> undep \ marked]

\* variant: a candidate carries the payment's document number, not its
\* internal id
MatchedCandidatesByDocumentNumber(matchedTransactions) ==
  [k \in 1..Len(matchedTransactions) |->
     [txnDetailId |-> matchedTransactions[k].txnDetailId,
      nsId |-> matchedTransactions[k].nsTransaction.tranId]]

MatchedCandidates(matchedTransactions) ==
  [k \in 1..Len(matchedTransactions) |->
     [txnDetailId |-> matchedTransactions[k].txnDetailId,
      nsId |-> matchedTransactions[k].nsTransaction.internalId]]

\* variant: every matched payment is put on the deposit, whether or not the
\* deposit form still offers it
createBankDepositOfAllMatched(settlementData, matchedTransactions, bankAccountId, store, deps, undep) ==
  IF matchedTransactions = <<>>
  THEN [depositId |-> 0, store |-> store, deposits |-> deps, undeposited |-> undep]
  ELSE LET candidates == MatchedCandidates(matchedTransactions)
           marked == {candidates[k].nsId : k \in 1..Len(candidates)}
           added == {candidates[k].txnDetailId : k \in 1..Len(candidates)}
           depositId == Len(deps) + 1
       IN [depositId |-> depositId,
           store |-> [i \in 1..Len(store) |->
                        IF i \in added
                        THEN [store[i] EXCEPT !.inDeposit = TRUE, !.bankDeposit = depositId]
                        ELSE store[i]],
           deposits |-> Append(deps, [account |-> bankAccountId, payments |-> marked,
                                      settlement |-> settlementData.id,
                                      supplementary |-> FALSE]),
           undeposited |-> undep \ marked]

createBankDeposit(settlementData, matchedTransactions, bankAccountId, store, deps, undep) ==
  IF matchedTransactions = <<>>
  THEN [depositId |-> 0, store |-> store, deposits |-> deps, undeposited |-> undep]
  ELSE GroupDeposit(MatchedCandidates(matchedTransactions), bankAccountId,
                    settlementData.id, FALSE, store, deps, undep)

\* variant: rows already in a deposit are returned as well
getMatchedTransactionsOfSettlement(settlementInternalId, store) ==
  LET idx == SelectSeq([i \in 1..Len(store) |-> i],
                       LAMBDA i : /\ store[i].parent = settlementInternalId
                                  /\ store[i].matched)
  IN [k \in 1..Len(idx) |-> [txnDetailId |-> idx[k], nsId |-> store[idx[k]].nsTransaction]]

\* rows of the settlement that are matched and not in a deposit, store order
getMatchedNotDepositedTransactions(settlementInternalId, store) ==
  LET idx == SelectSeq([i \in 1..Len(store) |-> i],
                       LAMBDA i : /\ store[i].parent = settlementInternalId
                                  /\ store[i].matched
                                  /\ ~store[i].inDeposit)
  IN [k \in 1..Len(idx) |-> [txnDetailId |-> idx[k], nsId |-> store[idx[k]].nsTransaction]]

\* variant: the settlement is marked processed only when a deposit was made
updateSettlementRecordIfDeposited(rec, matchedCount, unmatchedCount, matchedAmount, bankDepositId, hasErrorMessage) ==
  [rec EXCEPT !.matchedCount = matchedCount,
              !.unmatchedCount = unmatchedCount,
              !.matchedAmount = matchedAmount,
              !.processed = bankDepositId # 0,
              !.bankDeposit = IF bankDepositId # 0 THEN bankDepositId ELSE @,
              !.errorMessage = IF hasErrorMessage THEN "Unmatched transactions" ELSE @]

updateSettlementRecord(rec, matchedCount, unmatchedCount, matchedAmount, bankDepositId, hasErrorMessage) ==
  [rec EXCEPT !.matchedCount = matchedCount,
              !.unmatchedCount = unmatchedCount,
              !.matchedAmount = matchedAmount,
              !.processed = TRUE,
              !.bankDeposit = IF bankDepositId # 0 THEN bankDepositId ELSE @,
              !.errorMessage = IF hasErrorMessage THEN "Unmatched transactions" ELSE @]

\* the children of a settlement record
ChildIds(store, settlementInternalId) ==
  {i \in 1..Len(store) : store[i].parent = settlementInternalId}

RECURSIVE SumAmounts(_, _)
SumAmounts(store, ids) ==
  IF ids = {} THEN 0
  ELSE LET i == CHOOSE j \in ids : TRUE
       IN store[i].amount + SumAmounts(store, ids \ {i})

\* variant: the counts are moved by one instead of being recounted
adjustSettlementMatchCounts(rec, settlementInternalId, store) ==
  [rec EXCEPT !.matchedCount = @ + 1,
              !.unmatchedCount = IF @ > 0 THEN @ - 1 ELSE 0,
              !.matchedAmount = SumAmounts(store, {i \in ChildIds(store, settlementInternalId) :
                                                     store[i].matched})]

updateSettlementMatchCounts(rec, settlementInternalId, store) ==
  LET kids == ChildIds(store, settlementInternalId)
      matchedKids == {i \in kids : store[i].matched}
      unmatchedCount == Cardinality(kids \ matchedKids)
  IN [rec EXCEPT !.matchedCount = Cardinality(matchedKids),
                 !.unmatchedCount = unmatchedCount,
                 !.matchedAmount = SumAmounts(store, matchedKids),
                 !.errorMessage = IF unmatchedCount > 0 THEN "Unmatched" ELSE ""]

\* ------------------------------------------------------------ initial state
NewResults ==
  [configurationsProcessed |-> 0, settlementsFound |-> 0, settlementsProcessed |-> 0,
   settlementsSkipped |-> 0, totalMatched |-> 0, totalUnmatched |-> 0,
   depositsCreated |-> 0, errors |-> <<>>, configResults |-> <<>>]

NewConfigResult(configId) ==
  [configId |-> configId, settlementsFound |-> 0, settlementsProcessed |-> 0,
   matched |-> 0, unmatched |-> 0, errors |-> <<>>]

NoCur == [sid |-> "", internalId |-> 0, matched |-> <<>>, unmatched |-> <<>>]

ErrorEntry(scope, configId, sid, msg) ==
  [scope |-> scope, config |-> configId, settlement |-> sid, msg |-> msg]

Op(name, sid, ok, error, depositId) ==
  [op |-> name, sid |-> sid, ok |-> ok, error |-> error, depositId |-> depositId]

NoFetch == [configs |-> <<>>, startDay |-> 0, endDay |-> 0]

NoProbe == [fn |-> "none", entry |-> NoTxn, amount |-> 0, isValid |-> FALSE, error |-> ""]

InitStore ==
  /\ settlements = <<>>
  /\ txnDetails = <<>>
  /\ deposits = <<>>
  /\ undeposited = {Ledger[i].internalId : i \in {j \in 1..Len(Ledger) : Ledger[j].undepAccount}}
  /\ cfgLastRun = [c \in 1..NumConfigs |-> -1]
  /\ now = DEFAULT_SCHEDULE_HOUR * TICKS_PER_HOUR
  /\ pc = "idle"
  /\ cfgIdx = 0
  /\ listing = <<>>
  /\ sIdx = 0
  /\ usage = InitialUsage
  /\ results = NewResults
  /\ configResult = NewConfigResult(0)
  /\ cur = NoCur
  /\ emails = {}
  /\ notified = <<>>
  /\ lastOp = Op("init", "", TRUE, "", 0)
  /\ runs = 0
  /\ faults = 0
  /\ externalOps = 0
  /\ operatorOps = 0
  /\ deferred = {}
  /\ fetch = NoFetch

\* every configuration record is active
InitState == InitStore /\ active = AllConfigIds

Init == InitState /\ probe = NoProbe

StoreVars == << settlements, txnDetails, deposits, undeposited >>
Counters == << runs, faults, externalOps, operatorOps >>

\* -------------------------------------------------- execute(): coordinator
Config == Loaded[cfgIdx]
Settlement == SourceSettlements[listing[sIdx]]
LowerUsage == {u \in UsageLevels : u <= usage}

\* history only: the Done settlements without a record that the run had
\* still to reach when it stopped for low governance
Unrecorded(sid) ==
  SourceSettlements[sid].status = "Done" /\ ~isSettlementProcessed(settlements, sid)

UnreachedFromSettlement ==
  {listing[k] : k \in {j \in sIdx..Len(listing) : Unrecorded(listing[j])}}

UnreachedFromConfig ==
  UNION { {sid \in SettlementIds :
             /\ \E k \in 1..Len(getSettlements(Loaded[c], now)) :
                   getSettlements(Loaded[c], now)[k] = sid
             /\ Unrecorded(sid)} :
          c \in {d \in cfgIdx..Len(Loaded) :
                   shouldRunNow(Loaded[d], cfgLastRun[Loaded[d].internalId], now)} }

\* the trigger fires (the clock has moved on since the previous trigger):
\* execute() starts and loads the configurations
StartRun ==
  /\ pc = "idle"
  /\ runs < MaxRuns
  /\ Loaded # <<>>
  /\ IF runs = 0 THEN now' = now ELSE \E d \in AdvanceChoices : now' = now + d
  /\ pc' = "config"
  /\ cfgIdx' = 1
  /\ usage' = InitialUsage
  /\ results' = NewResults
  /\ configResult' = NewConfigResult(0)
  /\ emails' = {}
  /\ notified' = <<>>
  /\ listing' = <<>>
  /\ sIdx' = 0
  /\ lastOp' = Op("StartRun", "", TRUE, "", 0)
  /\ UNCHANGED << active, probe, fetch, deferred, StoreVars, cfgLastRun, cur, Counters >>

\* for (config of configurations): !shouldRunNow(config) -> continue
ConfigGateSkip ==
  /\ pc = "config"
  /\ cfgIdx <= Len(Loaded)
  /\ ~shouldRunNow(Config, cfgLastRun[Config.internalId], now)
  /\ cfgIdx' = cfgIdx + 1
  /\ lastOp' = Op("ConfigGateSkip", "", TRUE, "", 0)
  /\ UNCHANGED << active, probe, fetch, deferred, StoreVars, cfgLastRun, now, pc, listing, sIdx, usage, results,
                  configResult, cur, emails, notified, Counters >>

\* remainingUsage < 1000 before a configuration -> error pushed, break
ConfigLowBudget ==
  /\ pc = "config"
  /\ cfgIdx <= Len(Loaded)
  /\ shouldRunNow(Config, cfgLastRun[Config.internalId], now)
  /\ usage < CONFIG_USAGE_THRESHOLD
  /\ results' = [results EXCEPT !.errors = Append(@, ErrorEntry("run", 0, "", ERR_LOW_GOVERNANCE))]
  /\ pc' = "finish"
  /\ lastOp' = Op("ConfigLowBudget", "", FALSE, ERR_LOW_GOVERNANCE, 0)
  /\ deferred' = deferred \cup UnreachedFromConfig
  /\ UNCHANGED << active, probe, fetch, StoreVars, cfgLastRun, now, cfgIdx, listing, sIdx, usage,
                  configResult, cur, emails, notified, Counters >>

CollectEmail(config) ==
  IF config.sendEmail /\ config.notificationEmail # ""
  THEN emails \cup {config.notificationEmail} ELSE emails

\* the configuration's settlements are listed
ConfigFetch ==
  /\ pc = "config"
  /\ cfgIdx <= Len(Loaded)
  /\ shouldRunNow(Config, cfgLastRun[Config.internalId], now)
  /\ usage >= CONFIG_USAGE_THRESHOLD
  /\ LET found == getSettlements(Config, now) IN
       /\ listing' = found
       /\ configResult' = [NewConfigResult(Config.internalId) EXCEPT
                              !.settlementsFound = Len(found)]
       /\ results' = [results EXCEPT !.settlementsFound = @ + Len(found)]
  /\ emails' = CollectEmail(Config)
  /\ sIdx' = 1
  /\ pc' = "settlement"
  /\ lastOp' = Op("ConfigFetch", "", TRUE, "", 0)
  /\ UNCHANGED << active, probe, fetch, deferred, StoreVars, cfgLastRun, now, cfgIdx, usage, cur, notified, Counters >>

\* getSettlements throws: the per-configuration catch
ConfigFetchFail ==
  /\ pc = "config"
  /\ cfgIdx <= Len(Loaded)
  /\ shouldRunNow(Config, cfgLastRun[Config.internalId], now)
  /\ usage >= CONFIG_USAGE_THRESHOLD
  /\ faults < MaxFaults
  /\ faults' = faults + 1
  /\ emails' = CollectEmail(Config)
  /\ LET e == ErrorEntry("config", Config.internalId, "", ERR_API_FAULT)
         cr == [NewConfigResult(Config.internalId) EXCEPT !.errors = <<e>>]
     IN /\ configResult' = cr
        /\ results' = [results EXCEPT !.errors = Append(@, e),
                                      !.configResults = Append(@, cr)]
  /\ cfgLastRun' = [cfgLastRun EXCEPT ![Config.internalId] = now]
  /\ cfgIdx' = cfgIdx + 1
  /\ lastOp' = Op("ConfigFetchFail", "", FALSE, ERR_API_FAULT, 0)
  /\ UNCHANGED << active, probe, fetch, deferred, StoreVars, now, pc, listing, sIdx, usage, cur, notified,
                  runs, externalOps, operatorOps >>

\* after the settlement loop: configurationsProcessed++, the run status is
\* written to the configuration, configResult is pushed
CompleteConfig(res) ==
  /\ results' = [res EXCEPT !.configurationsProcessed = @ + 1,
                            !.configResults = Append(@, configResult)]
  /\ cfgLastRun' = [cfgLastRun EXCEPT ![Config.internalId] = now]
  /\ cfgIdx' = cfgIdx + 1
  /\ pc' = "config"

ConfigDone ==
  /\ pc = "settlement"
  /\ sIdx > Len(listing)
  /\ CompleteConfig(results)
  /\ lastOp' = Op("ConfigDone", "", TRUE, "", 0)
  /\ UNCHANGED << active, probe, fetch, deferred, StoreVars, now, listing, sIdx, usage, configResult, cur, emails,
                  notified, Counters >>

\* variant: the settlement loop is left without an entry on the error list
SettlementLowBudgetSilent ==
  /\ pc = "settlement"
  /\ sIdx <= Len(listing)
  /\ usage < SETTLEMENT_USAGE_THRESHOLD
  /\ CompleteConfig(results)
  /\ lastOp' = Op("SettlementLowBudget", listing[sIdx], FALSE, ERR_LOW_GOVERNANCE, 0)
  /\ deferred' = deferred \cup UnreachedFromSettlement
  /\ UNCHANGED << active, probe, fetch, StoreVars, now, listing, sIdx, usage, configResult, cur, emails,
                  notified, Counters >>

\* remainingUsage < 500 before a settlement -> error pushed, break out of the
\* settlement loop
SettlementLowBudget ==
  /\ pc = "settlement"
  /\ sIdx <= Len(listing)
  /\ usage < SETTLEMENT_USAGE_THRESHOLD
  /\ CompleteConfig([results EXCEPT
        !.errors = Append(@, ErrorEntry("run", 0, "", ERR_LOW_GOVERNANCE))])
  /\ lastOp' = Op("SettlementLowBudget", listing[sIdx], FALSE, ERR_LOW_GOVERNANCE, 0)
  /\ deferred' = deferred \cup UnreachedFromSettlement
  /\ UNCHANGED << active, probe, fetch, StoreVars, now, listing, sIdx, usage, configResult, cur, emails,
                  notified, Counters >>

\* processSettlement returns null: status is not Done, or a record with the
\* settlement's id exists
SettlementSkip ==
  /\ pc = "settlement"
  /\ sIdx <= Len(listing)
  /\ usage >= SETTLEMENT_USAGE_THRESHOLD
  /\ \/ Settlement.status # "Done"
     \/ isSettlementProcessed(settlements, Settlement.id)
  /\ results' = [results EXCEPT !.settlementsSkipped = @ + 1]
  /\ sIdx' = sIdx + 1
  /\ lastOp' = Op("SettlementSkip", Settlement.id, TRUE, "", 0)
  /\ UNCHANGED << active, probe, fetch, deferred, StoreVars, cfgLastRun, now, pc, cfgIdx, listing, usage, configResult,
                  cur, emails, notified, Counters >>

CanProcess ==
  /\ pc = "settlement"
  /\ sIdx <= Len(listing)
  /\ usage >= SETTLEMENT_USAGE_THRESHOLD
  /\ Settlement.status = "Done"
  /\ ~isSettlementProcessed(settlements, Settlement.id)

\* variant: the error is rethrown to the handler around the whole run
SettlementCatchRethrow(msg) ==
  LET e == ErrorEntry("settlement", Config.internalId, Settlement.id, msg) IN
  /\ results' = [results EXCEPT !.errors = Append(@, e)]
  /\ configResult' = configResult
  /\ sIdx' = sIdx
  /\ pc' = "finish"
  /\ cur' = NoCur
  /\ faults' = faults + 1
  /\ lastOp' = Op("SettlementCatch", Settlement.id, FALSE, msg, 0)

\* variant: the settlement that threw is counted as processed for its
\* configuration
SettlementCatchCounted(msg) ==
  LET e == ErrorEntry("settlement", Config.internalId, Settlement.id, msg) IN
  /\ results' = [results EXCEPT !.errors = Append(@, e)]
  /\ configResult' = [configResult EXCEPT !.errors = Append(@, e),
                                          !.settlementsProcessed = @ + 1]
  /\ sIdx' = sIdx + 1
  /\ pc' = "settlement"
  /\ cur' = NoCur
  /\ faults' = faults + 1
  /\ lastOp' = Op("SettlementCatch", Settlement.id, FALSE, msg, 0)

\* the catch around processSettlement: the error goes on both lists and the
\* loop goes on
SettlementCatch(msg) ==
  LET e == ErrorEntry("settlement", Config.internalId, Settlement.id, msg) IN
  /\ results' = [results EXCEPT !.errors = Append(@, e)]
  /\ configResult' = [configResult EXCEPT !.errors = Append(@, e)]
  /\ sIdx' = sIdx + 1
  /\ pc' = "settlement"
  /\ cur' = NoCur
  /\ faults' = faults + 1
  /\ lastOp' = Op("SettlementCatch", Settlement.id, FALSE, msg, 0)

\* getSettlementDetails throws
SettlementDetailFail ==
  /\ CanProcess
  /\ faults < MaxFaults
  /\ SettlementCatch(ERR_API_FAULT)
  /\ UNCHANGED << active, probe, fetch, deferred, StoreVars, cfgLastRun, now, cfgIdx, listing, usage, emails, notified,
                  runs, externalOps, operatorOps >>

\* processSettlement up to and including matchTransactions
SettlementMatch ==
  /\ CanProcess
  /\ LET internalId == Len(settlements) + 1
         m == matchTransactions(Settlement.transactions, internalId, txnDetails)
     IN /\ settlements' = Append(settlements, createSettlementRecord(Settlement))
        /\ txnDetails' = m.store
        /\ cur' = [sid |-> Settlement.id, internalId |-> internalId,
                   matched |-> m.matched, unmatched |-> m.unmatched]
  /\ pc' = "deposit"
  /\ lastOp' = Op("SettlementMatch", Settlement.id, TRUE, "", 0)
  /\ UNCHANGED << active, probe, fetch, deferred, deposits, undeposited, cfgLastRun, now, cfgIdx, listing, sIdx, usage,
                  results, configResult, emails, notified, Counters >>

\* createTransactionDetailRecord throws for the f-th transaction
SettlementMatchFail ==
  /\ CanProcess
  /\ faults < MaxFaults
  /\ \E f \in 1..Len(Settlement.transactions) :
       LET internalId == Len(settlements) + 1
           m == MatchLoop(Settlement.transactions, f - 1, internalId, txnDetails)
       IN /\ settlements' = Append(settlements, createSettlementRecord(Settlement))
          /\ txnDetails' = m.store
  /\ SettlementCatch(ERR_STORE_FAULT)
  /\ UNCHANGED << active, probe, fetch, deferred, deposits, undeposited, cfgLastRun, now, cfgIdx, listing, usage, emails,
                  notified, runs, externalOps, operatorOps >>

\* matchedAmount += parseFloat(match.windcaveTxn.amount)
MatchedAmount(matched) ==
  SumSeq([k \in 1..Len(matched) |-> matched[k].windcaveTxn.amount])

\* variant: the deposit is attempted whatever the direction of the settlement
DepositForAnyDirection(bankAccountId) ==
  IF Len(cur.matched) > 0
  THEN createBankDeposit(Settlement, cur.matched, bankAccountId,
                         txnDetails, deposits, undeposited)
  ELSE [depositId |-> 0, store |-> txnDetails, deposits |-> deposits,
        undeposited |-> undeposited]

\* the createBankDeposit step of processSettlement and of performManualFetch
\* for the settlement in hand: only for CR with a non-empty matched list
DepositFor(bankAccountId) ==
  IF Settlement.CRDR = "CR" /\ Len(cur.matched) > 0
  THEN createBankDeposit(Settlement, cur.matched, bankAccountId,
                         txnDetails, deposits, undeposited)
  ELSE [depositId |-> 0, store |-> txnDetails, deposits |-> deposits,
        undeposited |-> undeposited]

DepositAttempt == DepositFor(Config.bankAccount)

\* processSettlement from createBankDeposit to its return, and the caller's
\* bookkeeping of the result
SettlementDeposit ==
  /\ pc = "deposit"
  /\ LET d == DepositAttempt
         nm == Len(cur.matched)
         nu == Len(cur.unmatched)
     IN /\ deposits' = d.deposits
        /\ undeposited' = d.undeposited
        /\ txnDetails' = d.store
        /\ settlements' = [settlements EXCEPT ![cur.internalId] =
             updateSettlementRecord(@, nm, nu, MatchedAmount(cur.matched), d.depositId, nu > 0)]
        /\ results' = [results EXCEPT
             !.depositsCreated = IF d.depositId # 0 THEN @ + 1 ELSE @,
             !.settlementsProcessed = @ + 1,
             !.totalMatched = @ + nm,
             !.totalUnmatched = @ + nu]
        /\ configResult' = [configResult EXCEPT
             !.settlementsProcessed = @ + 1,
             !.matched = @ + nm,
             !.unmatched = @ + nu]
        /\ lastOp' = Op("SettlementDeposit", cur.sid, TRUE, "", d.depositId)
  /\ cur' = NoCur
  /\ sIdx' = sIdx + 1
  /\ pc' = "settlement"
  /\ usage' \in LowerUsage
  /\ UNCHANGED << active, probe, fetch, deferred, cfgLastRun, now, cfgIdx, listing, emails, notified, Counters >>

\* depositRecord.save() throws inside createBankDeposit: nothing is saved
SettlementDepositFail ==
  /\ pc = "deposit"
  /\ Settlement.CRDR = "CR" /\ Len(cur.matched) > 0
  /\ faults < MaxFaults
  /\ SettlementCatch(ERR_STORE_FAULT)
  /\ UNCHANGED << active, probe, fetch, deferred, StoreVars, cfgLastRun, now, cfgIdx, listing, usage, emails, notified,
                  runs, externalOps, operatorOps >>

\* updateSettlementRecord throws: the deposit, if any, stays
SettlementUpdateFail ==
  /\ pc = "deposit"
  /\ faults < MaxFaults
  /\ LET d == DepositAttempt
     IN /\ deposits' = d.deposits
        /\ undeposited' = d.undeposited
        /\ txnDetails' = d.store
  /\ SettlementCatch(ERR_STORE_FAULT)
  /\ UNCHANGED << active, probe, fetch, deferred, settlements, cfgLastRun, now, cfgIdx, listing, usage, emails, notified,
                  runs, externalOps, operatorOps >>

\* a set of addresses as the sequence of sendNotificationEmail calls
RECURSIVE SetToSeq(_)
SetToSeq(S) ==
  IF S = {} THEN <<>>
  ELSE LET x == CHOOSE y \in S : TRUE IN <<x>> \o SetToSeq(S \ {x})

\* variant: one notification per configuration processed, not per address
FinishRunPerConfiguration ==
  /\ \/ pc = "config" /\ cfgIdx > Len(Loaded)
     \/ pc = "finish"
  /\ notified' = SelectSeq([k \in 1..Len(results.configResults) |->
                              Configurations[results.configResults[k].configId].notificationEmail],
                           LAMBDA a : a \in emails)
  /\ pc' = "done"
  /\ lastOp' = Op("FinishRun", "", TRUE, "", 0)
  /\ UNCHANGED << active, probe, fetch, deferred, StoreVars, cfgLastRun, now, cfgIdx, listing, sIdx, usage, results,
                  configResult, cur, emails, Counters >>

\* the configuration loop is over (or was left by break): one notification
\* per collected address
FinishRun ==
  /\ \/ pc = "config" /\ cfgIdx > Len(Loaded)
     \/ pc = "finish"
  /\ notified' = SetToSeq(emails)
  /\ pc' = "done"
  /\ lastOp' = Op("FinishRun", "", TRUE, "", 0)
  /\ UNCHANGED << active, probe, fetch, deferred, StoreVars, cfgLastRun, now, cfgIdx, listing, sIdx, usage, results,
                  configResult, cur, emails, Counters >>

\* execute() returns: its locals are gone
Return ==
  /\ pc = "done"
  /\ pc' = "idle"
  /\ runs' = runs + 1
  /\ cfgIdx' = 0
  /\ listing' = <<>>
  /\ sIdx' = 0
  /\ usage' = InitialUsage
  /\ results' = NewResults
  /\ configResult' = NewConfigResult(0)
  /\ emails' = {}
  /\ notified' = <<>>
  /\ lastOp' = Op("Return", "", TRUE, "", 0)
  /\ UNCHANGED << active, probe, fetch, deferred, StoreVars, cfgLastRun, now, cur, faults, externalOps, operatorOps >>

\* ------------------------------------------------------- the outside world
\* Someone else deposits an undeposited payment.  The list is read only by
\* createBankDeposit and createSupplementaryDeposit, so it is enough to let
\* this happen where one of the two can be the next step: after matching,
\* before the deposit, and between runs.
ExternalDeposit ==
  /\ pc \in {"idle", "deposit", "fetch-deposit"}
  /\ externalOps < MaxExternal
  /\ \E e \in undeposited : undeposited' = undeposited \ {e}
  /\ externalOps' = externalOps + 1
  /\ UNCHANGED << active, probe, fetch, deferred, settlements, txnDetails, deposits, cfgLastRun, now, pc, cfgIdx, listing,
                  sIdx, usage, results, configResult, cur, emails, notified, lastOp,
                  runs, faults, operatorOps >>

\* ------------------------------------------------------------ the operator
\* variant: a successful manual match takes the payment off the undeposited
\* lines
ManualMatchTakesPayment ==
  /\ pc = "idle"
  /\ operatorOps < MaxOperatorOps
  /\ operatorOps' = operatorOps + 1
  /\ \E txnDetailId \in 1..Len(txnDetails), nsTransactionId \in ManualMatchInputs :
       LET txnDetail == txnDetails[txnDetailId]
           settlementId == txnDetail.parent
           nsTransaction == findNetSuiteTransaction(nsTransactionId)
           validation == validatePaymentForDeposit(nsTransaction, [amount |-> txnDetail.amount])
           sid == settlements[settlementId].settlementId
       IN IF ~nsTransaction.found
          THEN /\ lastOp' = Op("ManualMatch", sid, FALSE, ERR_NS_NOT_FOUND, 0)
               /\ UNCHANGED << settlements, txnDetails, undeposited >>
          ELSE IF ~validation.isValid
          THEN /\ lastOp' = Op("ManualMatch", sid, FALSE, validation.error, 0)
               /\ UNCHANGED << settlements, txnDetails, undeposited >>
          ELSE LET store == [txnDetails EXCEPT ![txnDetailId] =
                                [@ EXCEPT !.nsTransaction = nsTransactionId,
                                          !.matched = TRUE,
                                          !.matchError = ""]]
               IN /\ txnDetails' = store
                  /\ settlements' = [settlements EXCEPT ![settlementId] =
                                       updateSettlementMatchCounts(@, settlementId, store)]
                  /\ undeposited' = undeposited \ {nsTransaction.internalId}
                  /\ lastOp' = Op("ManualMatch", sid, TRUE, "", 0)
  /\ UNCHANGED << active, probe, fetch, deferred, deposits, cfgLastRun, now, pc, cfgIdx, listing, sIdx, usage,
                  results, configResult, cur, emails, notified, runs, faults, externalOps >>

\* variant: the detail record is written before the payment is validated
ManualMatchWriteFirst ==
  /\ pc = "idle"
  /\ operatorOps < MaxOperatorOps
  /\ operatorOps' = operatorOps + 1
  /\ \E txnDetailId \in 1..Len(txnDetails), nsTransactionId \in ManualMatchInputs :
       LET txnDetail == txnDetails[txnDetailId]
           settlementId == txnDetail.parent
           nsTransaction == findNetSuiteTransaction(nsTransactionId)
           validation == validatePaymentForDeposit(nsTransaction, [amount |-> txnDetail.amount])
           sid == settlements[settlementId].settlementId
           store == [txnDetails EXCEPT ![txnDetailId] =
                       [@ EXCEPT !.nsTransaction = nsTransactionId,
                                 !.matched = TRUE,
                                 !.matchError = ""]]
       IN IF ~nsTransaction.found
          THEN /\ lastOp' = Op("ManualMatch", sid, FALSE, ERR_NS_NOT_FOUND, 0)
               /\ UNCHANGED << active, probe, fetch, deferred, settlements, txnDetails >>
          ELSE /\ txnDetails' = store
               /\ IF ~validation.isValid
                  THEN /\ lastOp' = Op("ManualMatch", sid, FALSE, validation.error, 0)
                       /\ UNCHANGED settlements
                  ELSE /\ settlements' = [settlements EXCEPT ![settlementId] =
                                            updateSettlementMatchCounts(@, settlementId, store)]
                       /\ lastOp' = Op("ManualMatch", sid, TRUE, "", 0)
  /\ UNCHANGED << active, probe, fetch, deferred, deposits, undeposited, cfgLastRun, now, pc, cfgIdx, listing, sIdx, usage,
                  results, configResult, cur, emails, notified, runs, faults, externalOps >>

\* manualMatchTransaction(txnDetailId, nsTransactionId)
ManualMatch ==
  /\ pc = "idle"
  /\ operatorOps < MaxOperatorOps
  /\ operatorOps' = operatorOps + 1
  /\ \E txnDetailId \in 1..Len(txnDetails), nsTransactionId \in ManualMatchInputs :
       LET txnDetail == txnDetails[txnDetailId]
           settlementId == txnDetail.parent
           nsTransaction == findNetSuiteTransaction(nsTransactionId)
           validation == validatePaymentForDeposit(nsTransaction, [amount |-> txnDetail.amount])
           sid == settlements[settlementId].settlementId
       IN IF ~nsTransaction.found
          THEN /\ lastOp' = Op("ManualMatch", sid, FALSE, ERR_NS_NOT_FOUND, 0)
               /\ UNCHANGED << active, probe, fetch, deferred, settlements, txnDetails >>
          ELSE IF ~validation.isValid
          THEN /\ lastOp' = Op("ManualMatch", sid, FALSE, validation.error, 0)
               /\ UNCHANGED << active, probe, fetch, deferred, settlements, txnDetails >>
          ELSE LET store == [txnDetails EXCEPT ![txnDetailId] =
                                [@ EXCEPT !.nsTransaction = nsTransactionId,
                                          !.matched = TRUE,
                                          !.matchError = ""]]
               IN /\ txnDetails' = store
                  /\ settlements' = [settlements EXCEPT ![settlementId] =
                                       updateSettlementMatchCounts(@, settlementId, store)]
                  /\ lastOp' = Op("ManualMatch", sid, TRUE, "", 0)
  /\ UNCHANGED << active, probe, fetch, deferred, deposits, undeposited, cfgLastRun, now, pc, cfgIdx, listing, sIdx, usage,
                  results, configResult, cur, emails, notified, runs, faults, externalOps >>

\* handleCreateSupplementaryDeposit -> createSupplementaryDeposit
SupplementaryDeposit ==
  /\ pc = "idle"
  /\ operatorOps < MaxOperatorOps
  /\ Loaded # <<>>
  /\ operatorOps' = operatorOps + 1
  /\ \E settlementInternalId \in 1..Len(settlements) :
       LET bankAccountId == Loaded[1].bankAccount
           sid == settlements[settlementInternalId].settlementId
           pendingTransactions == getMatchedNotDepositedTransactions(settlementInternalId, txnDetails)
           d == GroupDeposit(pendingTransactions, bankAccountId, sid, TRUE,
                             txnDetails, deposits, undeposited)
       IN IF pendingTransactions = <<>>
          THEN /\ lastOp' = Op("SupplementaryDeposit", sid, FALSE, ERR_NO_PENDING, 0)
               /\ UNCHANGED << active, probe, fetch, deferred, txnDetails, deposits, undeposited >>
          ELSE IF d.depositId = 0
          THEN /\ lastOp' = Op("SupplementaryDeposit", sid, FALSE, ERR_NOT_IN_UNDEPOSITED, 0)
               /\ UNCHANGED << active, probe, fetch, deferred, txnDetails, deposits, undeposited >>
          ELSE /\ txnDetails' = d.store
               /\ deposits' = d.deposits
               /\ undeposited' = d.undeposited
               /\ lastOp' = Op("SupplementaryDeposit", sid, TRUE, "", d.depositId)
  /\ UNCHANGED << active, probe, fetch, deferred, settlements, cfgLastRun, now, pc, cfgIdx, listing, sIdx, usage, results,
                  configResult, cur, emails, notified, runs, faults, externalOps >>

\* --------------------------------- the operator's fetch: performManualFetch
\* configId: 'all', or the internal id of one configuration
FetchConfigChoices ==
  {[k \in 1..Len(Loaded) |-> Loaded[k].internalId]} \cup {<<c>> : c \in AllConfigIds}
\* startDate and endDate, as days of the clock
FetchWindows == { <<0, 0>>, <<0, 1>> }

FetchConfig == Configurations[fetch.configs[cfgIdx]]

FetchLocals == << cfgLastRun, now, usage, configResult, emails, notified, deferred, active, probe >>

\* the operator submits the form: dates parsed, configurations loaded
StartManualFetch ==
  /\ pc = "idle"
  /\ operatorOps < MaxOperatorOps
  /\ operatorOps' = operatorOps + 1
  /\ \E configs \in FetchConfigChoices, w \in FetchWindows :
       /\ configs # <<>>
       /\ fetch' = [configs |-> configs, startDay |-> w[1], endDay |-> w[2]]
  /\ pc' = "fetch-config"
  /\ cfgIdx' = 1
  /\ listing' = <<>>
  /\ sIdx' = 0
  /\ results' = NewResults
  /\ lastOp' = Op("StartManualFetch", "", TRUE, "", 0)
  /\ UNCHANGED << FetchLocals, StoreVars, cur, runs, faults, externalOps >>

\* windcaveApi.getSettlements for the configuration and the dates given
ManualConfigFetch ==
  /\ pc = "fetch-config"
  /\ cfgIdx <= Len(fetch.configs)
  /\ listing' = SelectSeq(FetchConfig.merchantSettlements,
                          LAMBDA sid : SourceSettlements[sid].day \in fetch.startDay..fetch.endDay)
  /\ sIdx' = 1
  /\ pc' = "fetch-settlement"
  /\ lastOp' = Op("ManualConfigFetch", "", TRUE, "", 0)
  /\ UNCHANGED << FetchLocals, StoreVars, fetch, cfgIdx, results, cur, Counters >>

\* catch (configError): logged, the loop goes on with the next configuration
ManualCatch(sid, msg) ==
  /\ faults < MaxFaults
  /\ faults' = faults + 1
  /\ cfgIdx' = cfgIdx + 1
  /\ pc' = "fetch-config"
  /\ cur' = NoCur
  /\ lastOp' = Op("ManualCatch", sid, FALSE, msg, 0)
  /\ UNCHANGED << FetchLocals, fetch, listing, sIdx, results, runs, externalOps, operatorOps >>

\* getSettlements throws
ManualConfigFetchFail ==
  /\ pc = "fetch-config"
  /\ cfgIdx <= Len(fetch.configs)
  /\ ManualCatch("", ERR_API_FAULT)
  /\ UNCHANGED StoreVars

\* if (status !== DONE) continue; if (isSettlementProcessed(id)) continue
ManualSettlementSkip ==
  /\ pc = "fetch-settlement"
  /\ sIdx <= Len(listing)
  /\ \/ Settlement.status # "Done"
     \/ isSettlementProcessed(settlements, Settlement.id)
  /\ sIdx' = sIdx + 1
  /\ lastOp' = Op("ManualSettlementSkip", Settlement.id, TRUE, "", 0)
  /\ UNCHANGED << FetchLocals, StoreVars, fetch, pc, cfgIdx, listing, results, cur, Counters >>

ManualCanProcess ==
  /\ pc = "fetch-settlement"
  /\ sIdx <= Len(listing)
  /\ Settlement.status = "Done"
  /\ ~isSettlementProcessed(settlements, Settlement.id)

\* getSettlementDetails throws
ManualDetailFail ==
  /\ ManualCanProcess
  /\ ManualCatch(Settlement.id, ERR_API_FAULT)
  /\ UNCHANGED StoreVars

\* getSettlementDetails, createSettlementRecord, matchTransactions
ManualSettlementMatch ==
  /\ ManualCanProcess
  /\ LET internalId == Len(settlements) + 1
         m == matchTransactions(Settlement.transactions, internalId, txnDetails)
     IN /\ settlements' = Append(settlements, createSettlementRecord(Settlement))
        /\ txnDetails' = m.store
        /\ cur' = [sid |-> Settlement.id, internalId |-> internalId,
                   matched |-> m.matched, unmatched |-> m.unmatched]
  /\ pc' = "fetch-deposit"
  /\ lastOp' = Op("ManualSettlementMatch", Settlement.id, TRUE, "", 0)
  /\ UNCHANGED << FetchLocals, deposits, undeposited, fetch, cfgIdx, listing, sIdx, results,
                  Counters >>

\* createTransactionDetailRecord throws for the f-th transaction
ManualMatchFail ==
  /\ ManualCanProcess
  /\ \E f \in 1..Len(Settlement.transactions) :
       LET internalId == Len(settlements) + 1
           m == MatchLoop(Settlement.transactions, f - 1, internalId, txnDetails)
       IN /\ settlements' = Append(settlements, createSettlementRecord(Settlement))
          /\ txnDetails' = m.store
  /\ ManualCatch(Settlement.id, ERR_STORE_FAULT)
  /\ UNCHANGED << deposits, undeposited >>

\* createBankDeposit for CR with matches, updateSettlementRecord, the counters
ManualSettlementDeposit ==
  /\ pc = "fetch-deposit"
  /\ LET d == DepositFor(FetchConfig.bankAccount)
         nm == Len(cur.matched)
         nu == Len(cur.unmatched)
     IN /\ deposits' = d.deposits
        /\ undeposited' = d.undeposited
        /\ txnDetails' = d.store
        /\ settlements' = [settlements EXCEPT ![cur.internalId] =
             updateSettlementRecord(@, nm, nu, MatchedAmount(cur.matched), d.depositId, nu > 0)]
        /\ results' = [results EXCEPT
             !.settlementsProcessed = @ + 1,
             !.totalMatched = @ + nm,
             !.totalUnmatched = @ + nu]
        /\ lastOp' = Op("ManualSettlementDeposit", cur.sid, TRUE, "", d.depositId)
  /\ cur' = NoCur
  /\ sIdx' = sIdx + 1
  /\ pc' = "fetch-settlement"
  /\ UNCHANGED << FetchLocals, fetch, cfgIdx, listing, Counters >>

\* depositRecord.save() throws inside createBankDeposit: nothing is saved
ManualDepositFail ==
  /\ pc = "fetch-deposit"
  /\ Settlement.CRDR = "CR" /\ Len(cur.matched) > 0
  /\ ManualCatch(cur.sid, ERR_STORE_FAULT)
  /\ UNCHANGED StoreVars

\* updateSettlementRecord throws: the deposit, if any, stays
ManualUpdateFail ==
  /\ pc = "fetch-deposit"
  /\ LET d == DepositFor(FetchConfig.bankAccount)
     IN /\ deposits' = d.deposits
        /\ undeposited' = d.undeposited
        /\ txnDetails' = d.store
  /\ ManualCatch(cur.sid, ERR_STORE_FAULT)
  /\ UNCHANGED settlements

\* the settlement loop is over: results.configurationsProcessed++
ManualConfigDone ==
  /\ pc = "fetch-settlement"
  /\ sIdx > Len(listing)
  /\ results' = [results EXCEPT !.configurationsProcessed = @ + 1]
  /\ cfgIdx' = cfgIdx + 1
  /\ pc' = "fetch-config"
  /\ lastOp' = Op("ManualConfigDone", "", TRUE, "", 0)
  /\ UNCHANGED << FetchLocals, StoreVars, fetch, listing, sIdx, cur, Counters >>

\* return results: the page shows them and the locals are gone
ManualFetchReturn ==
  /\ pc = "fetch-config"
  /\ cfgIdx > Len(fetch.configs)
  /\ pc' = "idle"
  /\ fetch' = NoFetch
  /\ cfgIdx' = 0
  /\ listing' = <<>>
  /\ sIdx' = 0
  /\ results' = NewResults
  /\ lastOp' = Op("ManualFetch", "", TRUE, "", 0)
  /\ UNCHANGED << FetchLocals, StoreVars, cur, Counters >>

\* ----------------------------------------------------------- specification
Next ==
  \/ StartRun
  \/ ConfigGateSkip
  \/ ConfigLowBudget
  \/ ConfigFetch
  \/ ConfigFetchFail
  \/ ConfigDone
  \/ SettlementLowBudget
  \/ SettlementSkip
  \/ SettlementDetailFail
  \/ SettlementMatch
  \/ SettlementMatchFail
  \/ SettlementDeposit
  \/ SettlementDepositFail
  \/ SettlementUpdateFail
  \/ FinishRun
  \/ Return
  \/ ExternalDeposit
  \/ ManualMatch
  \/ SupplementaryDeposit
  \/ StartManualFetch
  \/ ManualConfigFetch
  \/ ManualConfigFetchFail
  \/ ManualSettlementSkip
  \/ ManualDetailFail
  \/ ManualSettlementMatch
  \/ ManualMatchFail
  \/ ManualSettlementDeposit
  \/ ManualDepositFail
  \/ ManualUpdateFail
  \/ ManualConfigDone
  \/ ManualFetchReturn

Spec == Init /\ [][Next]_vars

\* ------------------------------------------------------------- properties
RecordsOf(sid) == {i \in 1..Len(settlements) : settlements[i].settlementId = sid}

\* C1: after any number of runs made one after the other, at most one
\* settlement record carries a given external id, and each transaction of
\* that settlement has at most one detail row: a run that finds the record
\* creates nothing for it.
C1_AtMostOnce ==
  /\ \A sid \in SettlementIds : Cardinality(RecordsOf(sid)) <= 1
  /\ \A i, j \in 1..Len(txnDetails) :
        (/\ txnDetails[i].transactionId = txnDetails[j].transactionId
         /\ settlements[txnDetails[i].parent].settlementId
              = settlements[txnDetails[j].parent].settlementId) => i = j
  /\ \A sid \in SettlementIds : \A s \in RecordsOf(sid) :
        Cardinality(ChildIds(txnDetails, s)) <= Len(SourceSettlements[sid].transactions)

\* a later run has met a Done settlement again and skipped it
C1_Witness ==
  /\ runs >= 1
  /\ lastOp.op = "SettlementSkip"
  /\ SourceSettlements[lastOp.sid].status = "Done"
  /\ Cardinality(RecordsOf(lastOp.sid)) = 1

MatchedIds == {cur.matched[k].nsTransaction.internalId : k \in 1..Len(cur.matched)}

\* processSettlement or performManualFetch calls createBankDeposit in this
\* step, and none of the matched payments is on the deposit form any more
DepositCallAllAbsent ==
  /\ \/ pc = "deposit" /\ pc' = "settlement"
     \/ pc = "fetch-deposit" /\ pc' = "fetch-settlement"
  /\ Settlement.CRDR = "CR"
  /\ cur.matched # <<>>
  /\ MatchedIds \cap undeposited = {}

\* C3: a createBankDeposit call with a non-empty matched list none of whose
\* payments is undeposited at that moment returns null, saves no deposit and
\* changes no row's in-deposit flag or deposit reference.
C3_DepositIntersectionSafety ==
  [][DepositCallAllAbsent =>
       /\ deposits' = deposits
       /\ undeposited' = undeposited
       /\ \A i \in 1..Len(txnDetails) :
            /\ txnDetails'[i].inDeposit = txnDetails[i].inDeposit
            /\ txnDetails'[i].bankDeposit = txnDetails[i].bankDeposit
       /\ lastOp'.depositId = 0
       /\ lastOp'.op \in {"SettlementDeposit", "ManualSettlementDeposit"}
            => settlements'[cur.internalId].bankDeposit = 0]_vars

\* a CR settlement with matches was processed and got no deposit, the other
\* party having deposited the payment in between
C3_Witness ==
  /\ lastOp.op = "SettlementDeposit"
  /\ lastOp.depositId = 0
  /\ \E s \in RecordsOf(lastOp.sid) :
        /\ settlements[s].crdr = "CR"
        /\ settlements[s].matchedCount > 0
        /\ \A i \in ChildIds(txnDetails, s) : ~txnDetails[i].inDeposit

\* the ledger ids createBankDeposit or createSupplementaryDeposit was given
\* in the step that saves a deposit
CandidateIds ==
  IF pc \in {"deposit", "fetch-deposit"} THEN MatchedIds
  ELSE {txnDetails[i].nsTransaction :
          i \in {j \in 1..Len(txnDetails) :
                   /\ settlements[txnDetails[j].parent].settlementId = lastOp'.sid
                   /\ txnDetails[j].matched
                   /\ ~txnDetails[j].inDeposit}}

\* C4: whatever the other party removed from the undeposited set between
\* matching and depositing, a deposit this system saves holds exactly the
\* payments that are both among the settlement's matched ones and undeposited
\* when the deposit is made.
C4_DepositIsIntersection ==
  [][Len(deposits') # Len(deposits) =>
       /\ Len(deposits') = Len(deposits) + 1
       /\ SubSeq(deposits', 1, Len(deposits)) = deposits
       /\ deposits'[Len(deposits')].payments = CandidateIds \cap undeposited
       /\ deposits'[Len(deposits')].payments # {}
       /\ undeposited' = undeposited \ deposits'[Len(deposits')].payments]_vars

\* a deposit was saved for a settlement one of whose matched payments the
\* other party had already deposited
C4_Witness ==
  /\ lastOp.op = "SettlementDeposit"
  /\ lastOp.depositId # 0
  /\ externalOps > 0
  /\ \E s \in RecordsOf(lastOp.sid) :
        \E i \in ChildIds(txnDetails, s) : txnDetails[i].matched /\ ~txnDetails[i].inDeposit

\* the detail rows matchTransactions has just written for a transaction
RowsOf(txn) ==
  {i \in ChildIds(txnDetails, cur.internalId) : txnDetails[i].transactionId = txn.id}

CountsConsistent(s) ==
  LET kids == ChildIds(txnDetails, s)
      matchedKids == {i \in kids : txnDetails[i].matched}
  IN /\ settlements[s].matchedCount = Cardinality(matchedKids)
     /\ settlements[s].unmatchedCount = Cardinality(kids \ matchedKids)
     /\ settlements[s].matchedAmount = SumAmounts(txnDetails, matchedKids)

\* C8: when processSettlement has completed for a settlement, and when a
\* manualMatchTransaction on one of its transactions has succeeded, the stored
\* matched count, unmatched count and matched amount of the settlement are
\* those of a scan of its detail rows.
C8_CountConsistency ==
  (\/ lastOp.op \in {"SettlementDeposit", "ManualSettlementDeposit"}
   \/ (lastOp.op = "ManualMatch" /\ lastOp.ok)) =>
    /\ RecordsOf(lastOp.sid) # {}
    /\ \A s \in RecordsOf(lastOp.sid) : CountsConsistent(s)

\* a manual match has raised the matched count of a processed settlement that
\* still has an unmatched transaction
C8_Witness ==
  /\ lastOp.op = "ManualMatch"
  /\ lastOp.ok
  /\ \E s \in RecordsOf(lastOp.sid) :
        /\ settlements[s].processed
        /\ settlements[s].matchedCount >= 2
        /\ settlements[s].unmatchedCount >= 1

\* processing of a settlement, or the listing of a configuration, throws in
\* this step
SettlementThrows == faults' = faults + 1 /\ pc \in {"settlement", "deposit"}
ConfigThrows == faults' = faults + 1 /\ pc = "config"

LowGovernance == \E k \in 1..Len(results.errors) : results.errors[k].msg = ERR_LOW_GOVERNANCE

ErrorsOfScope(scope) == {k \in 1..Len(results.errors) : results.errors[k].scope = scope}

\* C9: a throw while a settlement is processed puts the error on the run's
\* list and on the configuration's list and the loop goes on with the next
\* settlement of the configuration; a throw while a configuration is
\* processed is recorded and the loop goes on with the next configuration.
\* At the end of a run that governance did not stop, every settlement listed
\* was processed, skipped or recorded as failed, and every configuration was
\* processed unless the schedule gate excluded it.
C9_FailureIsolation ==
  /\ [][/\ SettlementThrows =>
             LET e == ErrorEntry("settlement", Config.internalId, listing[sIdx], lastOp'.error)
             IN /\ results'.errors = Append(results.errors, e)
                /\ configResult'.errors = Append(configResult.errors, e)
                /\ pc' = "settlement"
                /\ sIdx' = sIdx + 1
                /\ listing' = listing
                /\ cfgIdx' = cfgIdx
         /\ ConfigThrows =>
             LET ce == ErrorEntry("config", Config.internalId, "", lastOp'.error)
             IN /\ results'.errors = Append(results.errors, ce)
                /\ Len(results'.configResults) = Len(results.configResults) + 1
                /\ results'.configResults[Len(results'.configResults)].errors = <<ce>>
                /\ pc' = "config"
                /\ cfgIdx' = cfgIdx + 1]_vars
  /\ []((pc = "done" /\ ~LowGovernance) =>
          /\ results.settlementsFound =
               results.settlementsProcessed + results.settlementsSkipped
                 + Cardinality(ErrorsOfScope("settlement"))
          /\ \A c \in 1..NumConfigs :
               \/ cfgLastRun[c] = now
               \/ ~shouldRunNow(Configurations[c], cfgLastRun[c], now))

\* the first settlement of a configuration threw and a later settlement of
\* the same configuration was processed in the same run
C9_Witness ==
  /\ pc = "done"
  /\ Len(results.configResults) >= 1
  /\ results.configResults[1].errors # <<>>
  /\ results.configResults[1].errors[1].scope = "settlement"
  /\ results.configResults[1].errors[1].settlement = "S1"
  /\ results.configResults[1].settlementsProcessed >= 1

\* the configurations whose settlements this run listed
ListedBy(sid) ==
  {c \in 1..NumConfigs :
     /\ cfgLastRun[c] = now
     /\ \A k \in ErrorsOfScope("config") : results.errors[k].config # c
     /\ SourceSettlements[sid].day
          \in (Today(now) - Configurations[c].lookbackDays)..Today(now)
     /\ \E k \in 1..Len(Configurations[c].merchantSettlements) :
           Configurations[c].merchantSettlements[k] = sid}

ProcessedOnce(sid) ==
  /\ Cardinality(RecordsOf(sid)) = 1
  /\ \A s \in RecordsOf(sid) : settlements[s].processed

\* C10: when a run has stopped for low governance before reaching a Done
\* settlement, a later run that governance does not stop, whose gate passes
\* and whose window includes the settlement ends with the settlement
\* recorded once and marked processed, or at least with no record of it, so
\* that a later run can still take it up.
C10_ResumedAfterBudgetStop ==
  (pc = "done" /\ ~LowGovernance) =>
    \A sid \in deferred :
      ListedBy(sid) # {} => (ProcessedOnce(sid) \/ RecordsOf(sid) = {})

\* the coordinator (scheduled or operator-triggered) is between
\* matchTransactions and updateSettlementRecord for the settlement in hand
DepositPhase == pc \in {"deposit", "fetch-deposit"}
Completes == lastOp'.op \in {"SettlementDeposit", "ManualSettlementDeposit"}

\* C18: the coordinator saves a deposit only for a CR settlement with a
\* non-empty matched list; for a DR settlement it saves no deposit and puts no
\* row in a deposit, whatever was matched, and still marks the settlement
\* processed with its counts.
C18_DepositOnlyForCredit ==
  [][DepositPhase =>
       /\ deposits' # deposits => (Settlement.CRDR = "CR" /\ cur.matched # <<>>)
       /\ Settlement.CRDR = "DR" =>
            /\ deposits' = deposits
            /\ undeposited' = undeposited \/ externalOps' # externalOps
            /\ txnDetails' = txnDetails
            /\ \A i \in ChildIds(txnDetails', cur.internalId) : ~txnDetails'[i].inDeposit
            /\ Completes =>
                 /\ settlements'[cur.internalId].processed
                 /\ settlements'[cur.internalId].matchedCount = Len(cur.matched)
                 /\ settlements'[cur.internalId].unmatchedCount = Len(cur.unmatched)
                 /\ settlements'[cur.internalId].matchedAmount = MatchedAmount(cur.matched)
                 /\ settlements'[cur.internalId].bankDeposit = 0]_vars

\* a DR settlement with a matched transaction has been processed and has no
\* deposit
C18_Witness ==
  /\ lastOp.op = "SettlementDeposit"
  /\ \E s \in RecordsOf(lastOp.sid) :
        /\ settlements[s].crdr = "DR"
        /\ settlements[s].processed
        /\ settlements[s].matchedCount >= 1
        /\ settlements[s].bankDeposit = 0
        /\ \E i \in ChildIds(txnDetails, s) :
              txnDetails[i].matched /\ txnDetails[i].nsTransaction \in undeposited

\* this step is a call of createSupplementaryDeposit
SupplementaryCall ==
  operatorOps' = operatorOps + 1 /\ lastOp'.op = "SupplementaryDeposit"

\* the rows of settlement record s that are matched and not in a deposit
PendingOf(s) ==
  {i \in ChildIds(txnDetails, s) : txnDetails[i].matched /\ ~txnDetails[i].inDeposit}

\* C19: createSupplementaryDeposit fails with the fixed error and leaves
\* settlements, detail rows, deposits and the undeposited list as they were
\* when the settlement has no row matched and not in a deposit, and when none
\* of the ledger entries of such rows is undeposited.
C19_SupplementaryFailure ==
  [][SupplementaryCall =>
       \A s \in RecordsOf(lastOp'.sid) :
         /\ PendingOf(s) = {} =>
              /\ ~lastOp'.ok
              /\ lastOp'.error = ERR_NO_PENDING
              /\ UNCHANGED StoreVars
         /\ (/\ PendingOf(s) # {}
             /\ {txnDetails[i].nsTransaction : i \in PendingOf(s)} \cap undeposited = {}) =>
              /\ ~lastOp'.ok
              /\ lastOp'.error = ERR_NOT_IN_UNDEPOSITED
              /\ UNCHANGED StoreVars]_vars

\* a supplementary deposit was refused because the other party had already
\* deposited the payment of the settlement's pending row
C19_Witness ==
  /\ lastOp.op = "SupplementaryDeposit"
  /\ ~lastOp.ok
  /\ lastOp.error = ERR_NOT_IN_UNDEPOSITED
  /\ externalOps > 0
  /\ \E s \in RecordsOf(lastOp.sid) : \E i \in PendingOf(s) :
        txnDetails[i].nsTransaction \in LedgerIds \ undeposited

\* C20: a row that is in a deposit stays in it with the same deposit
\* reference, and a saved deposit stays as it was, whatever runs or
\* supplementary deposits follow; a successful supplementary deposit saves one
\* new deposit and changes the in-deposit flag and deposit reference only of
\* rows of the settlement that were matched and not in a deposit.
C20_DepositImmutability ==
  [][/\ \A i \in 1..Len(txnDetails) :
          txnDetails[i].inDeposit =>
            /\ txnDetails'[i].inDeposit
            /\ txnDetails'[i].bankDeposit = txnDetails[i].bankDeposit
     /\ SubSeq(deposits', 1, Len(deposits)) = deposits
     /\ (SupplementaryCall /\ lastOp'.ok) =>
          /\ Len(deposits') = Len(deposits) + 1
          /\ deposits'[Len(deposits')].supplementary
          /\ lastOp'.depositId = Len(deposits')
          /\ Len(txnDetails') = Len(txnDetails)
          /\ \A i \in 1..Len(txnDetails) :
               txnDetails'[i] # txnDetails[i] =>
                 /\ txnDetails[i].matched
                 /\ ~txnDetails[i].inDeposit
                 /\ txnDetails[i].parent \in RecordsOf(lastOp'.sid)
                 /\ txnDetails'[i] = [txnDetails[i] EXCEPT !.inDeposit = TRUE,
                                                           !.bankDeposit = Len(deposits')]]_vars

\* a settlement has one row in the deposit of its run and another in a
\* supplementary deposit saved afterwards
C20_Witness ==
  /\ lastOp.op = "SupplementaryDeposit"
  /\ lastOp.ok
  /\ \E s \in RecordsOf(lastOp.sid) :
        \E i, j \in ChildIds(txnDetails, s) :
          /\ txnDetails[i].inDeposit
          /\ ~deposits[txnDetails[i].bankDeposit].supplementary
          /\ txnDetails[j].inDeposit
          /\ txnDetails[j].bankDeposit = lastOp.depositId

\* the addresses of the configurations this run went on to process (those
\* that passed the gate and the governance check), where sending is enabled
RunAddresses ==
  {Configurations[results.configResults[k].configId].notificationEmail :
     k \in {j \in 1..Len(results.configResults) :
              LET c == Configurations[results.configResults[j].configId]
              IN c.sendEmail /\ c.notificationEmail # ""}}

\* C21: at the end of a run sendNotificationEmail has been called exactly
\* once for every distinct address of the configurations processed in the
\* run, and for no address twice, however many configurations share it.
C21_OneNotificationPerAddress ==
  pc = "done" =>
    /\ {notified[k] : k \in 1..Len(notified)} = RunAddresses
    /\ \A i, j \in 1..Len(notified) : notified[i] = notified[j] => i = j

\* two configurations with the same address were processed and one
\* notification went out
C21_Witness ==
  /\ pc = "done"
  /\ Len(results.configResults) = 2
  /\ Configurations[1].notificationEmail = Configurations[2].notificationEmail
  /\ notified = << Configurations[1].notificationEmail >>

\* the configuration in hand ran less than an hour ago
RanWithinTheHour ==
  /\ pc = "config"
  /\ cfgIdx <= NumConfigs
  /\ cfgLastRun[cfgIdx] # -1
  /\ now - cfgLastRun[cfgIdx] < TICKS_PER_HOUR

\* the step takes up the configuration in hand: its settlements are listed,
\* or listing them throws
TakesUpConfig ==
  /\ pc = "config"
  /\ \/ pc' = "settlement"
     \/ Len(results'.configResults) = Len(results.configResults) + 1

SourceCallFailed ==
  /\ pc \in {"settlement", "deposit"}
  /\ \E k \in 1..Len(configResult.errors) : configResult.errors[k].msg = ERR_API_FAULT

\* the step is a failing call to the settlement source: getSettlements or
\* getSettlementDetails throws
SourceCallFails ==
  /\ pc \in {"config", "settlement"}
  /\ faults' = faults + 1
  /\ lastOp'.error = ERR_API_FAULT

\* C23: when the settlement listing or a settlement-detail fetch fails for a
\* configuration the error is recorded, the run goes on, and no further
\* settlement of that configuration is persisted, matched or deposited in
\* the run.
C23_SourceFailureEndsConfig ==
  [][/\ SourceCallFails =>
          /\ Len(results'.errors) = Len(results.errors) + 1
          /\ results'.errors[Len(results'.errors)].msg = ERR_API_FAULT
          /\ pc' \in {"config", "settlement"}
     /\ SourceCallFailed =>
          UNCHANGED << settlements, txnDetails, deposits >>]_vars

\* C24: when createBankDeposit finds none of the matched payments of a CR
\* settlement on the deposit form and returns null, the settlement is still
\* updated with processed = true, its counts and its matched amount; no
\* deposit is saved and no deposit reference is stored on the settlement.
C24_EmptyGroupingStillProcessed ==
  [][(/\ DepositPhase
      /\ Completes
      /\ Settlement.CRDR = "CR"
      /\ cur.matched # <<>>
      /\ MatchedIds \cap undeposited = {}) =>
       /\ settlements'[cur.internalId].processed
       /\ settlements'[cur.internalId].matchedCount = Len(cur.matched)
       /\ settlements'[cur.internalId].unmatchedCount = Len(cur.unmatched)
       /\ settlements'[cur.internalId].matchedAmount = MatchedAmount(cur.matched)
       /\ settlements'[cur.internalId].bankDeposit = 0
       /\ deposits' = deposits
       /\ \A i \in ChildIds(txnDetails', cur.internalId) : ~txnDetails'[i].inDeposit]_vars

\* a CR settlement with a matched transaction was processed after its payment
\* had left the undeposited list
C24_Witness ==
  /\ lastOp.op \in {"SettlementDeposit", "ManualSettlementDeposit"}
  /\ lastOp.depositId = 0
  /\ \E s \in RecordsOf(lastOp.sid) :
        /\ settlements[s].crdr = "CR"
        /\ settlements[s].processed
        /\ settlements[s].matchedCount >= 1
        /\ settlements[s].bankDeposit = 0
        /\ \A i \in ChildIds(txnDetails, s) :
              txnDetails[i].matched => txnDetails[i].nsTransaction \notin undeposited

\* a call throws while the operator's fetch works on a configuration or on
\* one of its settlements
ManualFetchThrows ==
  /\ pc \in {"fetch-config", "fetch-settlement", "fetch-deposit"}
  /\ faults' = faults + 1

\* C25: when a configuration or a settlement fails during the operator's
\* fetch, the failure is put on an error list of the results the operator is
\* shown, and after a failing settlement the remaining settlements of the
\* same configuration are still attempted.
C25_ManualFetchReportsFailures ==
  [][ManualFetchThrows =>
       /\ Len(results'.errors) = Len(results.errors) + 1
       /\ results'.errors[Len(results'.errors)].msg = lastOp'.error
       /\ pc \in {"fetch-settlement", "fetch-deposit"} =>
            /\ pc' = "fetch-settlement"
            /\ cfgIdx' = cfgIdx
            /\ sIdx' = sIdx + 1]_vars

\* the scenario's data: S1 is Done and CR and holds T1, a purchase of 100.00
\* with reference '1001', and T2, a refund of 20.00; E1 is the ledger payment
\* with document number '1001' and amount 100.00 on the undeposited account
ScenarioT1 == SourceSettlements["S1"].transactions[1]
ScenarioT2 == SourceSettlements["S1"].transactions[2]
ScenarioE1 == Ledger[1]

ScenarioData ==
  /\ SourceSettlements["S1"].status = "Done"
  /\ SourceSettlements["S1"].CRDR = "CR"
  /\ Len(SourceSettlements["S1"].transactions) = 2
  /\ ScenarioT1.type = "Purchase"
  /\ ScenarioT1.amount = 1000000
  /\ ScenarioT1.merchantReference = <<"1","0","0","1">>
  /\ ScenarioT2.type = "Refund"
  /\ ScenarioT2.amount = 200000
  /\ ScenarioE1.tranId = <<"1","0","0","1">>
  /\ ScenarioE1.amount = 1000000
  /\ ScenarioE1.undepAccount

\* a run of the coordinator has just processed S1 and nobody else has
\* touched the undeposited list
ScenarioRun ==
  /\ ScenarioData
  /\ lastOp.op = "SettlementDeposit"
  /\ lastOp.sid = "S1"
  /\ externalOps = 0

BudgetCheckFails ==
  \/ /\ pc = "config"
     /\ cfgIdx <= Len(Loaded)
     /\ shouldRunNow(Config, cfgLastRun[Config.internalId], now)
     /\ usage < CONFIG_USAGE_THRESHOLD
  \/ /\ pc = "settlement"
     /\ sIdx <= Len(listing)
     /\ usage < SETTLEMENT_USAGE_THRESHOLD

\* C30: a governance check that fails puts the stop on the run's error list
\* and changes no record; from then on, with remaining usage that does not
\* rise, the run fetches the details of no settlement and persists, matches
\* and deposits nothing.
C30_BudgetStopIsFinal ==
  [][/\ BudgetCheckFails =>
          /\ results'.errors
               = Append(results.errors, ErrorEntry("run", 0, "", ERR_LOW_GOVERNANCE))
          /\ UNCHANGED StoreVars
     /\ usage' <= usage \/ pc \in {"idle", "done"}
     /\ (LowGovernance /\ pc # "idle") =>
          /\ UNCHANGED << settlements, txnDetails, deposits >>
          /\ pc' # "deposit"
          /\ faults' = faults]_vars

\* the run stopped inside the first configuration's settlement loop after a
\* settlement had been processed, went on to the second configuration and
\* stopped again at its governance check
C30_Witness ==
  /\ pc = "done"
  /\ results.settlementsProcessed >= 1
  /\ Len(results.configResults) = 1
  /\ \E i, j \in 1..Len(results.errors) :
        /\ i # j
        /\ results.errors[i].msg = ERR_LOW_GOVERNANCE
        /\ results.errors[j].msg = ERR_LOW_GOVERNANCE

\* the operator's step is a call of manualMatchTransaction
ManualMatchStep == operatorOps' # operatorOps /\ lastOp'.op = "ManualMatch"

\* C31: a call of manualMatchTransaction leaves the NetSuite-transaction link,
\* the matched flag, the in-deposit flag and the deposit reference of every
\* transaction detail that is already matched as they were.
C31_OnlyUnmatchedIsBound ==
  [][ManualMatchStep =>
       \A i \in 1..Len(txnDetails) :
          txnDetails[i].matched =>
            /\ txnDetails'[i].nsTransaction = txnDetails[i].nsTransaction
            /\ txnDetails'[i].matched = txnDetails[i].matched
            /\ txnDetails'[i].inDeposit = txnDetails[i].inDeposit
            /\ txnDetails'[i].bankDeposit = txnDetails[i].bankDeposit]_vars

\* C32: a call of manualMatchTransaction that does not succeed returns the
\* reason (payment not found, already deposited, amount mismatch) and leaves
\* the transaction details and the settlements as they were; a call that
\* succeeds was given a payment that is found and passes the validation.
C32_FailedManualMatchChangesNothing ==
  [][ManualMatchStep =>
       IF lastOp'.ok
       THEN \E i \in 1..Len(txnDetails), ns \in ManualMatchInputs :
               /\ validatePaymentForDeposit(findNetSuiteTransaction(ns),
                                            [amount |-> txnDetails[i].amount]).isValid
               /\ txnDetails'[i].nsTransaction = ns
               /\ txnDetails'[i].matched
       ELSE /\ lastOp'.error \in {ERR_NS_NOT_FOUND, ERR_PAYMENT_ALREADY_DEPOSITED,
                                  ERR_AMOUNT_MISMATCH}
            /\ UNCHANGED << txnDetails, settlements >>]_vars

\* a manual match of an unmatched transaction was refused for its amount
C32_Witness ==
  /\ lastOp.op = "ManualMatch"
  /\ ~lastOp.ok
  /\ lastOp.error = ERR_AMOUNT_MISMATCH
  /\ \E i \in 1..Len(txnDetails) :
        /\ ~txnDetails[i].matched
        /\ settlements[txnDetails[i].parent].settlementId = lastOp.sid

\* C34: a step of the program that saves no deposit, a matching step or a
\* manual match among them, leaves the undeposited lines as they were; a step
\* that saves a deposit is createBankDeposit's or createSupplementaryDeposit's
\* and takes off exactly the lines that deposit holds, all of them undeposited
\* before.  (The payments' amounts are fixed data of the ledger; no action
\* writes them.)
C34_MatchingLeavesLedgerAlone ==
  [][externalOps' = externalOps =>
       IF deposits' = deposits
       THEN undeposited' = undeposited
       ELSE /\ Len(deposits') = Len(deposits) + 1
            /\ SubSeq(deposits', 1, Len(deposits)) = deposits
            /\ deposits'[Len(deposits')].payments \subseteq undeposited
            /\ undeposited' = undeposited \ deposits'[Len(deposits')].payments
            /\ \/ pc \in {"deposit", "fetch-deposit"}
               \/ lastOp'.op = "SupplementaryDeposit"]_vars

\* after a deposit was saved, a manual match bound a transaction to payment 8
\* and the payment is still on the undeposited lines
C34_Witness ==
  /\ lastOp.op = "ManualMatch"
  /\ lastOp.ok
  /\ deposits # <<>>
  /\ <<"8">> \in undeposited
  /\ \E i \in 1..Len(txnDetails) :
        /\ txnDetails[i].matched
        /\ ~txnDetails[i].inDeposit
        /\ txnDetails[i].nsTransaction = <<"8">>

\* C35: the link a successful manualMatchTransaction writes on a transaction
\* detail is the internal id of the payment findNetSuiteTransaction returned
\* for the number the operator gave.
C35_ManualLinkIsInternalId ==
  [][(ManualMatchStep /\ lastOp'.ok) =>
       \A i \in 1..Len(txnDetails) :
          txnDetails'[i] # txnDetails[i] =>
            findNetSuiteTransaction(txnDetails'[i].nsTransaction).internalId
              = txnDetails'[i].nsTransaction]_vars

\* a settlement record that is not marked processed and is not the one
\* processSettlement has in hand: its processing threw after
\* createSettlementRecord
Stranded(i) ==
  /\ i \in 1..Len(settlements)
  /\ ~settlements[i].processed
  /\ ~(pc \in {"deposit", "fetch-deposit"} /\ cur.internalId = i)

AccountsOfFetchers(sid) ==
  {Configurations[c].bankAccount :
     c \in {d \in 1..NumConfigs :
              \E k \in 1..Len(Configurations[d].merchantSettlements) :
                 Configurations[d].merchantSettlements[k] = sid}}

\* C39: a supplementary deposit is posted against the deposit account of the
\* configuration that fetched its settlement.
C39_SupplementaryDepositAccount ==
  \A d \in 1..Len(deposits) :
     deposits[d].supplementary =>
       deposits[d].account \in AccountsOfFetchers(deposits[d].settlement)

\* C40: at the end of a run the totals of matched, unmatched and processed
\* equal the sums over the per-configuration results, and the step in which a
\* settlement's processing throws moves none of these counters.
C40_RunStatisticsConsistent ==
  /\ [](pc = "done" =>
          LET cr == results.configResults IN
          /\ results.totalMatched = SumSeq([k \in 1..Len(cr) |-> cr[k].matched])
          /\ results.totalUnmatched = SumSeq([k \in 1..Len(cr) |-> cr[k].unmatched])
          /\ results.settlementsProcessed
               = SumSeq([k \in 1..Len(cr) |-> cr[k].settlementsProcessed]))
  /\ [][(faults' # faults /\ lastOp'.op = "SettlementCatch") =>
          /\ results'.totalMatched = results.totalMatched
          /\ results'.totalUnmatched = results.totalUnmatched
          /\ results'.settlementsProcessed = results.settlementsProcessed
          /\ configResult'.matched = configResult.matched
          /\ configResult'.unmatched = configResult.unmatched
          /\ configResult'.settlementsProcessed = configResult.settlementsProcessed]_vars

\* a run has ended in which one settlement was processed with a match and
\* another one threw
C40_Witness ==
  /\ pc = "done"
  /\ Len(results.configResults) = 2
  /\ results.settlementsProcessed >= 1
  /\ results.totalMatched >= 1
  /\ results.totalUnmatched >= 1
  /\ \E k \in 1..Len(results.errors) : results.errors[k].scope = "settlement"

\* ------------------------------------------- the validator called on its own
\* how far from the ledger amount the probed amounts range
MaxProbeDelta == 102

ProbeBase == Ledger[1].amount

ProbeEntries ==
  {NoTxn} \cup
  {[TxnInfo(Ledger[1]) EXCEPT !.amount = a, !.undepositedFunds = f] :
     a \in (ProbeBase - MaxProbeDelta)..(ProbeBase + MaxProbeDelta), f \in {"T", "F"}}

InitValidate ==
  /\ InitState
  /\ probe \in {[NoProbe EXCEPT !.fn = "input", !.entry = e, !.amount = ProbeBase] :
                  e \in ProbeEntries}

\* validatePaymentForDeposit(probe.entry, {amount: probe.amount})
ValidateProbe ==
  /\ probe.fn = "input"
  /\ LET r == validatePaymentForDeposit(probe.entry, [amount |-> probe.amount])
     IN probe' = [probe EXCEPT !.fn = "validatePaymentForDeposit",
                               !.isValid = r.isValid, !.error = r.error]
  /\ UNCHANGED << active, StoreVars, cfgLastRun, now, pc, cfgIdx, listing, sIdx, usage, results,
                  configResult, cur, emails, notified, lastOp, Counters, deferred, fetch >>

NextValidate == ValidateProbe

SpecValidate == InitValidate /\ [][NextValidate]_vars

Validated == probe.fn = "validatePaymentForDeposit"

\* the four cases in the order the documentation gives them
ReferenceValidation(entry, amount) ==
  IF ~entry.found THEN ERR_NO_MATCHING_PAYMENT
  ELSE IF entry.undepositedFunds = "F" THEN ERR_PAYMENT_ALREADY_DEPOSITED
  ELSE IF entry.amount - amount > AMOUNT_TOLERANCE \/ amount - entry.amount > AMOUNT_TOLERANCE
  THEN ERR_AMOUNT_MISMATCH
  ELSE ""

\* C6: validatePaymentForDeposit returns what the ordered reference gives for
\* the same (entry, transaction): no entry -> no matching payment; flag false
\* -> already deposited, also when the amount is off; difference above the
\* tolerance -> amount mismatch; otherwise valid.  The call leaves the stores
\* as they were.
C6_ValidationOrder ==
  Validated =>
    /\ probe.error = ReferenceValidation(probe.entry, probe.amount)
    /\ probe.isValid = (ReferenceValidation(probe.entry, probe.amount) = "")
    /\ settlements = <<>> /\ txnDetails = <<>> /\ deposits = <<>>
    /\ undeposited = {Ledger[i].internalId : i \in {j \in 1..Len(Ledger) : Ledger[j].undepAccount}}

\* an entry already deposited whose amount is also off by more than the
\* tolerance has been validated
C6_Witness ==
  /\ Validated
  /\ probe.entry.found
  /\ probe.entry.undepositedFunds = "F"
  /\ Abs(probe.entry.amount - probe.amount) > AMOUNT_TOLERANCE
  /\ probe.error = ERR_PAYMENT_ALREADY_DEPOSITED

Responses == {"2xx", "401/403", "5xx", "other", "timeout"}

InitRequest ==
  /\ InitState
  /\ probe = [fn |-> "makeRequest", stack |-> << RequestFrame(0, "get") >>,
              status |-> "running", error |-> "", responses |-> <<>>, counters |-> <<>>]

\* https.get of the activation on top answers with the response given;
\* counters keeps the retryCount each attempt was made with
Respond(response) ==
  /\ probe.fn = "makeRequest"
  /\ probe.status = "running"
  /\ LET r == makeRequest(probe.stack, response)
     IN probe' = [probe EXCEPT !.stack = r.stack, !.status = r.status, !.error = r.error,
                               !.responses = Append(@, response),
                               !.counters = Append(@, probe.stack[Len(probe.stack)].retryCount)]
  /\ UNCHANGED << active, StoreVars, cfgLastRun, now, pc, cfgIdx, listing, sIdx, usage, results,
                  configResult, cur, emails, notified, lastOp, Counters, deferred, fetch >>

HttpSuccess == Respond("2xx")
HttpAuthFailure == Respond("401/403")
HttpServerError == Respond("5xx")
HttpOtherStatus == Respond("other")
HttpTimeout == Respond("timeout")

NextRequest ==
  \/ HttpSuccess
  \/ HttpAuthFailure
  \/ HttpServerError
  \/ HttpOtherStatus
  \/ HttpTimeout

SpecRequest == InitRequest /\ [][NextRequest]_vars

\* C11: one top-level makeRequest call makes at most 1 + MAX_API_RETRIES
\* HTTP attempts, whatever the responses and timeouts are.
C11_AttemptBound ==
  probe.fn = "makeRequest" => Len(probe.responses) <= 1 + MAX_API_RETRIES

\* the response of this step and the retryCount the attempt was made with
Answered(response) ==
  /\ probe.fn = "makeRequest"
  /\ probe'.responses = Append(probe.responses, response)
AttemptCounter == probe.stack[Len(probe.stack)].retryCount

\* C12: a 401/403 ends the call with the authentication error and any other
\* non-2xx, non-5xx status ends it with the request error, both without a
\* further attempt; a 5xx or a timeout is followed by another attempt only if
\* the attempt was made with a retry counter below the cap, and ends the call
\* with an error when the counter has reached the cap.
C12_RetryPolicy ==
  [][/\ Answered("401/403") =>
          probe'.status = "thrown" /\ probe'.error = ERR_API_AUTH_FAILED
     /\ Answered("other") =>
          probe'.status = "thrown" /\ probe'.error = ERR_API_FAULT
     /\ (Answered("5xx") \/ Answered("timeout")) =>
          IF AttemptCounter < MAX_API_RETRIES
          THEN probe'.status = "running"
          ELSE probe'.status = "thrown"]_vars

\* ------------------------------------- matchTransactions called on its own
\* the transactions a batch is drawn from: those of the source, and one whose
\* reference names a deposited cash sale while its auth code names an
\* undeposited payment of its amount
MatchPool ==
  UNION {{SourceSettlements[sid].transactions[k] :
            k \in 1..Len(SourceSettlements[sid].transactions)} : sid \in SettlementIds}
    \cup {Txn(<<"T","9">>, <<"5">>, 200000, "Purchase", <<"A","2">>)}

\* lists of distinct transactions
Batches ==
  UNION {{b \in [1..n -> MatchPool] : \A i, j \in 1..n : b[i] = b[j] => i = j} :
           n \in 0..MaxBatch}

\* processSettlement has created the settlement record and is about to call
\* matchTransactions(transactions, 1)
InitMatch ==
  /\ settlements = << createSettlementRecord(SourceSettlements["S1"]) >>
  /\ txnDetails = <<>>
  /\ deposits = <<>>
  /\ undeposited = {Ledger[i].internalId : i \in {j \in 1..Len(Ledger) : Ledger[j].undepAccount}}
  /\ cfgLastRun = [c \in 1..NumConfigs |-> -1]
  /\ now = DEFAULT_SCHEDULE_HOUR * TICKS_PER_HOUR
  /\ pc = "idle"
  /\ cfgIdx = 0
  /\ listing = <<>>
  /\ sIdx = 0
  /\ usage = InitialUsage
  /\ results = NewResults
  /\ configResult = NewConfigResult(0)
  /\ cur = NoCur
  /\ emails = {}
  /\ notified = <<>>
  /\ lastOp = Op("init", "", TRUE, "", 0)
  /\ runs = 0
  /\ faults = 0
  /\ externalOps = 0
  /\ operatorOps = 0
  /\ deferred = {}
  /\ fetch = NoFetch
  /\ active = AllConfigIds
  /\ probe \in {[fn |-> "batch", batch |-> b, matched |-> <<>>, unmatched |-> <<>>,
                 calls |-> <<>>] : b \in Batches}

\* matchTransactions(probe.batch, 1)
MatchBatch ==
  /\ probe.fn = "batch"
  /\ LET m == matchTransactions(probe.batch, 1, txnDetails)
     IN /\ txnDetails' = m.store
        /\ probe' = [probe EXCEPT !.fn = "matchTransactions", !.matched = m.matched,
                                  !.unmatched = m.unmatched, !.calls = m.calls]
  /\ UNCHANGED << active, settlements, deposits, undeposited, cfgLastRun, now, pc, cfgIdx, listing,
                  sIdx, usage, results, configResult, cur, emails, notified, lastOp,
                  Counters, deferred, fetch >>

NextMatch == MatchBatch

SpecMatch == InitMatch /\ [][NextMatch]_vars

BatchMatched == probe.fn = "matchTransactions"

\* the positions of the transaction in the returned lists and in the store
InMatched(txn) == {m \in 1..Len(probe.matched) : probe.matched[m].windcaveTxn = txn}
InUnmatched(txn) == {u \in 1..Len(probe.unmatched) : probe.unmatched[u].windcaveTxn = txn}
DetailRows(txn) == {i \in 1..Len(txnDetails) : txnDetails[i].transactionId = txn.id}

\* the names of the calls made for the transaction, in the order made
CallsFor(txn) ==
  LET mine == SelectSeq(probe.calls, LAMBDA c : c.txn = txn.id)
  IN [k \in 1..Len(mine) |-> mine[k].fn]

Lookups == {"findNetSuiteTransaction", "findNetSuiteTransactionByAuthCode"}

\* C13: for a transaction that is not a refund the auth-code lookup is made
\* only when the reference lookup found nothing; when the reference lookup
\* finds an entry the outcome is that of validating this entry, also when it
\* fails and the auth-code lookup would have found a valid one.
C13_LocatorChain ==
  BatchMatched =>
    \A k \in 1..Len(probe.batch) :
      LET txn == probe.batch[k]
          byRef == findNetSuiteTransaction(txn.merchantReference)
          validation == validatePaymentForDeposit(byRef, txn)
          fns == CallsFor(txn)
      IN txn.type # "Refund" =>
           /\ (\E c \in 1..Len(fns) : fns[c] = "findNetSuiteTransactionByAuthCode")
                => ~byRef.found
           /\ byRef.found =>
                IF validation.isValid
                THEN /\ \E m \in InMatched(txn) : probe.matched[m].nsTransaction = byRef
                     /\ \A i \in DetailRows(txn) :
                          txnDetails[i].matched
                            /\ txnDetails[i].nsTransaction = byRef.internalId
                ELSE /\ \E u \in InUnmatched(txn) : probe.unmatched[u].error = validation.error
                     /\ InMatched(txn) = {}
                     /\ \A i \in DetailRows(txn) :
                          ~txnDetails[i].matched /\ txnDetails[i].nsTransaction = <<>>

\* a transaction was returned unmatched because the entry its reference names
\* is deposited, although its auth code names a valid entry
C13_Witness ==
  /\ BatchMatched
  /\ \E k \in 1..Len(probe.batch) :
       LET txn == probe.batch[k]
           byRef == findNetSuiteTransaction(txn.merchantReference)
           byAuth == findNetSuiteTransactionByAuthCode(txn.authCode, txn.amount, txn.id)
       IN /\ txn.type # "Refund"
          /\ byRef.found
          /\ ~validatePaymentForDeposit(byRef, txn).isValid
          /\ validatePaymentForDeposit(byAuth, txn).isValid
          /\ InUnmatched(txn) # {}

\* the position in probe.calls of the first call with one of the names
FirstCall(txn, names) ==
  LET at == {c \in 1..Len(probe.calls) :
               probe.calls[c].txn = txn.id /\ probe.calls[c].fn \in names}
  IN IF at = {} THEN Len(probe.calls) + 1 ELSE CHOOSE c \in at : \A d \in at : c <= d

\* C15: matchTransactions over n transactions creates exactly n detail rows
\* under the settlement, each before any lookup for its transaction, and
\* every transaction is in exactly one of the returned lists, exactly once.
C15_OneRowOneOutcome ==
  BatchMatched =>
    /\ Len(txnDetails) = Len(probe.batch)
    /\ \A i \in 1..Len(txnDetails) : txnDetails[i].parent = 1
    /\ Len(probe.matched) + Len(probe.unmatched) = Len(probe.batch)
    /\ \A k \in 1..Len(probe.batch) :
         LET txn == probe.batch[k] IN
         /\ Cardinality(DetailRows(txn)) = 1
         /\ \A i \in DetailRows(txn) :
              /\ txnDetails[i].amount = txn.amount
              /\ txnDetails[i].merchantReference = txn.merchantReference
              /\ \A m \in InMatched(txn) : probe.matched[m].txnDetailId = i
              /\ \A u \in InUnmatched(txn) : probe.unmatched[u].txnDetailId = i
         /\ Cardinality(InMatched(txn)) + Cardinality(InUnmatched(txn)) = 1
         /\ FirstCall(txn, {"createTransactionDetailRecord"}) <= Len(probe.calls)
         /\ FirstCall(txn, {"createTransactionDetailRecord"}) < FirstCall(txn, Lookups)

\* a batch of a refund and a purchase that matched has been through
C15_Witness ==
  /\ BatchMatched
  /\ Len(probe.batch) = 2
  /\ Len(probe.matched) = 1
  /\ \E u \in 1..Len(probe.unmatched) : probe.unmatched[u].windcaveTxn.type = "Refund"

\* C16: the detail row of every transaction returned as unmatched carries a
\* match-error text that is not empty and is the reason returned for it.
C16_UnmatchedReasonPersisted ==
  BatchMatched =>
    \A u \in 1..Len(probe.unmatched) :
      /\ probe.unmatched[u].error # ""
      /\ txnDetails[probe.unmatched[u].txnDetailId].matchError # ""
      /\ txnDetails[probe.unmatched[u].txnDetailId].matchError = probe.unmatched[u].error

\* C17: after one matchTransactions call no two rows of the batch are matched
\* to the same ledger entry.
C17_NoSharedEntry ==
  BatchMatched =>
    \A i, j \in 1..Len(txnDetails) :
      (/\ txnDetails[i].matched
       /\ txnDetails[j].matched
       /\ txnDetails[i].nsTransaction = txnDetails[j].nsTransaction) => i = j

\* ---------------------- findNetSuiteTransactionByAuthCode called on its own
LookupAuthCodes == { <<>>, <<" ">>, <<"A","1">>, <<"A","2">>, <<"Z">> }
LookupIds == { <<>>, <<"T","5">>, <<"T","1">> }
LookupAmounts ==
  (ProbeBase - MaxProbeDelta)..(ProbeBase + MaxProbeDelta)
    \cup {Ledger[i].amount : i \in 1..Len(Ledger)}

InitLookup ==
  /\ InitState
  /\ probe \in {[fn |-> "lookup", authCode |-> a, amount |-> n, transactionId |-> t,
                 result |-> NoTxn] :
                  a \in LookupAuthCodes, n \in LookupAmounts, t \in LookupIds}

\* findNetSuiteTransactionByAuthCode(authCode, amount, transactionId)
LookupProbe ==
  /\ probe.fn = "lookup"
  /\ probe' = [probe EXCEPT
        !.fn = "findNetSuiteTransactionByAuthCode",
        !.result = findNetSuiteTransactionByAuthCode(probe.authCode, probe.amount,
                                                     probe.transactionId)]
  /\ UNCHANGED << active, StoreVars, cfgLastRun, now, pc, cfgIdx, listing, sIdx, usage, results,
                  configResult, cur, emails, notified, lastOp, Counters, deferred, fetch >>

NextLookup == LookupProbe

SpecLookup == InitLookup /\ [][NextLookup]_vars

LookedUp == probe.fn = "findNetSuiteTransactionByAuthCode"

\* the store positions of the payments with the auth code or the external id
LookupCandidates ==
  {i \in 1..Len(Ledger) :
     /\ Ledger[i].kind = "CustPymt"
     /\ \/ \E c \in 1..Len(probe.authCode) :
             probe.authCode[c] # " " /\ Ledger[i].authCode = probe.authCode
        \/ \E c \in 1..Len(probe.transactionId) :
             probe.transactionId[c] # " " /\ Ledger[i].pnref = probe.transactionId}

CloseCandidates ==
  {i \in LookupCandidates :
     /\ Ledger[i].amount - probe.amount <= AMOUNT_TOLERANCE
     /\ probe.amount - Ledger[i].amount <= AMOUNT_TOLERANCE}

\* C14: the auth-code lookup returns null for no candidate, the candidate
\* whatever its amount when there is exactly one, and with two or more the
\* first in store order whose amount is within the tolerance, null when none
\* is.
C14_AuthLookupSelection ==
  LookedUp =>
    /\ LookupCandidates = {} => probe.result = NoTxn
    /\ Cardinality(LookupCandidates) = 1 =>
         \A i \in LookupCandidates : probe.result = TxnInfo(Ledger[i])
    /\ Cardinality(LookupCandidates) >= 2 =>
         IF CloseCandidates = {} THEN probe.result = NoTxn
         ELSE \E i \in CloseCandidates :
                /\ \A j \in CloseCandidates : i <= j
                /\ probe.result = TxnInfo(Ledger[i])

\* the only candidate was returned although its amount is off by more than
\* the tolerance
C14_Witness ==
  /\ LookedUp
  /\ Cardinality(LookupCandidates) = 1
  /\ CloseCandidates = {}
  /\ probe.result.found

\* ----------------------------------- two invocations of execute() at a time
\* The scheduler starts execute() while an earlier invocation is still
\* running.  Each invocation has its own locals; here pc, cfgIdx, listing,
\* sIdx and cur hold one value per invocation.  An invocation is followed
\* through the settlements of one configuration, one store or source call
\* after the other; the store is shared.
Invocations == {1, 2}

\* 06:00 on day 0 and on day 1
OverlapTimes == {DEFAULT_SCHEDULE_HOUR * TICKS_PER_HOUR,
                 (HOURS_PER_DAY + DEFAULT_SCHEDULE_HOUR) * TICKS_PER_HOUR}

InitOverlap ==
  /\ settlements = <<>>
  /\ txnDetails = <<>>
  /\ deposits = <<>>
  /\ undeposited = {Ledger[i].internalId : i \in {j \in 1..Len(Ledger) : Ledger[j].undepAccount}}
  /\ cfgLastRun = [c \in 1..NumConfigs |-> -1]
  /\ now \in OverlapTimes
  /\ pc = [p \in Invocations |-> "check"]
  /\ cfgIdx \in [Invocations -> 1..NumConfigs]
  /\ listing = [p \in Invocations |-> getSettlements(Configurations[cfgIdx[p]], now)]
  /\ sIdx = [p \in Invocations |-> 1]
  /\ usage = InitialUsage
  /\ results = NewResults
  /\ configResult = NewConfigResult(0)
  /\ cur = [p \in Invocations |-> NoCur]
  /\ emails = {}
  /\ notified = <<>>
  /\ lastOp = Op("init", "", TRUE, "", 0)
  /\ runs = 0
  /\ faults = 0
  /\ externalOps = 0
  /\ operatorOps = 0
  /\ deferred = {}
  /\ fetch = NoFetch
  /\ active = AllConfigIds
  /\ probe = NoProbe

OverlapRest == << cfgLastRun, now, cfgIdx, listing, usage, results, configResult, emails,
                  notified, lastOp, Counters, deferred, fetch, active, probe >>

OverlapSettlement(p) == SourceSettlements[listing[p][sIdx[p]]]

\* processSettlement returns null: not Done, or a record with the id exists
OverlapSkip(p) ==
  /\ pc[p] = "check"
  /\ sIdx[p] <= Len(listing[p])
  /\ \/ OverlapSettlement(p).status # "Done"
     \/ isSettlementProcessed(settlements, OverlapSettlement(p).id)
  /\ sIdx' = [sIdx EXCEPT ![p] = @ + 1]
  /\ UNCHANGED << OverlapRest, StoreVars, pc, cur >>

\* both tests pass and getSettlementDetails returns
OverlapCheckPass(p) ==
  /\ pc[p] = "check"
  /\ sIdx[p] <= Len(listing[p])
  /\ OverlapSettlement(p).status = "Done"
  /\ ~isSettlementProcessed(settlements, OverlapSettlement(p).id)
  /\ cur' = [cur EXCEPT ![p] = [NoCur EXCEPT !.sid = OverlapSettlement(p).id]]
  /\ pc' = [pc EXCEPT ![p] = "create"]
  /\ UNCHANGED << OverlapRest, StoreVars, sIdx >>

\* variant: the record is created only if no record with the id exists by
\* now, otherwise the settlement is passed over
OverlapCreateUnlessRecorded(p) ==
  /\ pc[p] = "create"
  /\ IF isSettlementProcessed(settlements, cur[p].sid)
     THEN /\ cur' = [cur EXCEPT ![p] = NoCur]
          /\ sIdx' = [sIdx EXCEPT ![p] = @ + 1]
          /\ pc' = [pc EXCEPT ![p] = "check"]
          /\ UNCHANGED settlements
     ELSE /\ settlements' = Append(settlements, createSettlementRecord(OverlapSettlement(p)))
          /\ cur' = [cur EXCEPT ![p].internalId = Len(settlements) + 1]
          /\ pc' = [pc EXCEPT ![p] = "match"]
          /\ UNCHANGED sIdx
  /\ UNCHANGED << OverlapRest, txnDetails, deposits, undeposited >>

\* reconciliation.createSettlementRecord(settlementDetails)
OverlapCreate(p) ==
  /\ pc[p] = "create"
  /\ settlements' = Append(settlements, createSettlementRecord(OverlapSettlement(p)))
  /\ cur' = [cur EXCEPT ![p].internalId = Len(settlements) + 1]
  /\ pc' = [pc EXCEPT ![p] = "match"]
  /\ UNCHANGED << OverlapRest, txnDetails, deposits, undeposited, sIdx >>

\* reconciliation.matchTransactions(transactions, settlementInternalId)
OverlapMatch(p) ==
  /\ pc[p] = "match"
  /\ LET m == matchTransactions(OverlapSettlement(p).transactions, cur[p].internalId,
                                txnDetails)
     IN /\ txnDetails' = m.store
        /\ cur' = [cur EXCEPT ![p].matched = m.matched, ![p].unmatched = m.unmatched]
  /\ pc' = [pc EXCEPT ![p] = "deposit"]
  /\ UNCHANGED << OverlapRest, settlements, deposits, undeposited, sIdx >>

\* createBankDeposit for CR with matches, then updateSettlementRecord
OverlapDeposit(p) ==
  /\ pc[p] = "deposit"
  /\ LET d == IF OverlapSettlement(p).CRDR = "CR" /\ Len(cur[p].matched) > 0
              THEN createBankDeposit(OverlapSettlement(p), cur[p].matched,
                                     Configurations[cfgIdx[p]].bankAccount,
                                     txnDetails, deposits, undeposited)
              ELSE [depositId |-> 0, store |-> txnDetails, deposits |-> deposits,
                    undeposited |-> undeposited]
         nu == Len(cur[p].unmatched)
     IN /\ deposits' = d.deposits
        /\ undeposited' = d.undeposited
        /\ txnDetails' = d.store
        /\ settlements' = [settlements EXCEPT ![cur[p].internalId] =
             updateSettlementRecord(@, Len(cur[p].matched), nu,
                                    MatchedAmount(cur[p].matched), d.depositId, nu > 0)]
  /\ cur' = [cur EXCEPT ![p] = NoCur]
  /\ sIdx' = [sIdx EXCEPT ![p] = @ + 1]
  /\ pc' = [pc EXCEPT ![p] = "check"]
  /\ UNCHANGED OverlapRest

\* the settlement loop of the invocation is over
OverlapFinish(p) ==
  /\ pc[p] = "check"
  /\ sIdx[p] > Len(listing[p])
  /\ pc' = [pc EXCEPT ![p] = "done"]
  /\ UNCHANGED << OverlapRest, StoreVars, sIdx, cur >>

NextOverlap ==
  \/ \E p \in Invocations : OverlapSkip(p)
  \/ \E p \in Invocations : OverlapCheckPass(p)
  \/ \E p \in Invocations : OverlapCreate(p)
  \/ \E p \in Invocations : OverlapMatch(p)
  \/ \E p \in Invocations : OverlapDeposit(p)
  \/ \E p \in Invocations : OverlapFinish(p)

SpecOverlap == InitOverlap /\ [][NextOverlap]_vars

\* C26: nothing excludes one invocation while another works on the same
\* settlement: an invocation that found no record of E persists a record of
\* E and its transaction rows whatever has been persisted since it looked, so
\* when two invocations both look before either persists, E is recorded
\* twice.
C26_NoMutualExclusion ==
  [][\A p \in Invocations :
       /\ (pc[p] = "create" /\ pc'[p] # "create") =>
            /\ Len(settlements') = Len(settlements) + 1
            /\ settlements'[Len(settlements')].settlementId = cur[p].sid
            /\ cur'[p].internalId = Len(settlements')
       /\ (pc[p] = "match" /\ pc'[p] # "match") =>
            Cardinality(ChildIds(txnDetails', cur[p].internalId))
              = Len(OverlapSettlement(p).transactions)]_vars

\* both invocations have finished and one settlement has two records, each
\* with its own transaction rows
C26_Witness ==
  /\ \A p \in Invocations : pc[p] = "done"
  /\ \E sid \in SettlementIds :
        /\ Cardinality(RecordsOf(sid)) = 2
        /\ \A r \in RecordsOf(sid) :
              Cardinality(ChildIds(txnDetails, r)) = Len(SourceSettlements[sid].transactions)
        /\ SourceSettlements[sid].transactions # <<>>

\* ------------------------------------------- no active configuration record
\* loadAllConfigurations throws CONFIG_NOT_FOUND at the start of execute():
\* the handler around the whole run pushes the fatal error; its
\* loadConfiguration() throws the same error, so nothing is sent
StartRunNoConfiguration ==
  /\ pc = "idle"
  /\ runs < MaxRuns
  /\ Loaded = <<>>
  /\ IF runs = 0 THEN now' = now ELSE \E d \in AdvanceChoices : now' = now + d
  /\ pc' = "done"
  /\ cfgIdx' = 0
  /\ usage' = InitialUsage
  /\ results' = [NewResults EXCEPT
                   !.errors = << ErrorEntry("fatal", 0, "", ERR_CONFIG_NOT_FOUND) >>]
  /\ configResult' = NewConfigResult(0)
  /\ emails' = {}
  /\ notified' = <<>>
  /\ listing' = <<>>
  /\ sIdx' = 0
  /\ lastOp' = Op("StartRun", "", FALSE, ERR_CONFIG_NOT_FOUND, 0)
  /\ UNCHANGED << active, probe, fetch, deferred, StoreVars, cfgLastRun, cur, Counters >>

\* performManualFetch(.., 'all') throws out of loadAllConfigurations and
\* handlePost shows the message as an error
ManualFetchNoConfiguration ==
  /\ pc = "idle"
  /\ operatorOps < MaxOperatorOps
  /\ Loaded = <<>>
  /\ operatorOps' = operatorOps + 1
  /\ lastOp' = Op("ManualFetch", "", FALSE, ERR_CONFIG_NOT_FOUND, 0)
  /\ UNCHANGED << active, probe, fetch, deferred, StoreVars, cfgLastRun, now, pc, cfgIdx, listing,
                  sIdx, usage, results, configResult, cur, emails, notified, runs, faults,
                  externalOps >>

\* handleCreateSupplementaryDeposit cannot load a configuration and returns
\* before createSupplementaryDeposit is called
SupplementaryDepositNoConfiguration ==
  /\ pc = "idle"
  /\ operatorOps < MaxOperatorOps
  /\ Loaded = <<>>
  /\ operatorOps' = operatorOps + 1
  /\ \E settlementInternalId \in 1..Len(settlements) :
       lastOp' = Op("SupplementaryDeposit", settlements[settlementInternalId].settlementId,
                    FALSE, ERR_CONFIG_LOAD, 0)
  /\ UNCHANGED << active, probe, fetch, deferred, StoreVars, cfgLastRun, now, pc, cfgIdx, listing,
                  sIdx, usage, results, configResult, cur, emails, notified, runs, faults,
                  externalOps >>

\* any of the configuration records may be inactive
InitActivation == InitStore /\ probe = NoProbe /\ active \in SUBSET AllConfigIds

NextActivation ==
  \/ Next
  \/ StartRunNoConfiguration
  \/ ManualFetchNoConfiguration
  \/ SupplementaryDepositNoConfiguration

SpecActivation == InitActivation /\ [][NextActivation]_vars

\* a run of the coordinator starts
RunStarts == pc = "idle" /\ pc' \notin {"idle", "fetch-config"}

\* C28: with no active configuration a run of the coordinator lists no
\* settlements, persists no settlement, transaction or deposit record, and
\* ends with a fatal error on its error list.
C28_NoActiveConfiguration ==
  /\ [][(active = {} /\ RunStarts) =>
          /\ pc' = "done"
          /\ UNCHANGED << StoreVars, cfgLastRun >>
          /\ listing' = <<>>
          /\ results'.settlementsFound = 0
          /\ results'.settlementsProcessed = 0
          /\ \E k \in 1..Len(results'.errors) : results'.errors[k].scope = "fatal"]_vars
  /\ [](active = {} => pc \notin {"config", "settlement", "deposit", "finish"})

\* the trigger fired with no active configuration, after the operator had
\* fetched a configuration by its id
C28_Witness ==
  /\ active = {}
  /\ pc = "done"
  /\ settlements # <<>>
  /\ \E k \in 1..Len(results.errors) : results.errors[k].msg = ERR_CONFIG_NOT_FOUND

\* ------------------------------------------------ the gate called on its own
\* the hours the schedule-hour field of a configuration record can hold
ScheduleHours == 0..(HOURS_PER_DAY - 1)

\* the clock over day 1
GateTimes == (TICKS_PER_HOUR * HOURS_PER_DAY)..(2 * TICKS_PER_HOUR * HOURS_PER_DAY - 1)

\* loadAllConfigurations: parseInt(result.getValue(SCHEDULE_HOUR)) || 6
LoadScheduleHour(fieldValue) ==
  IF fieldValue = 0 THEN DEFAULT_SCHEDULE_HOUR ELSE fieldValue

\* a configuration with scheduling enabled and daily frequency, as loaded
GateConfig(fieldValue) ==
  [Configurations[1] EXCEPT !.enableScheduled = TRUE,
                            !.scheduleFreq = "daily",
                            !.scheduleHour = LoadScheduleHour(fieldValue)]

\* the configuration has never run, or ran an hour or a day before now
InitGate ==
  /\ InitStore
  /\ active = AllConfigIds
  /\ \E t \in GateTimes :
       probe \in {[fn |-> "gate", scheduleHour |-> h, time |-> t, lastRunDate |-> l,
                   result |-> FALSE] :
                  h \in ScheduleHours,
                  l \in {-1, t - TICKS_PER_HOUR, t - TICKS_PER_HOUR * HOURS_PER_DAY}}

\* shouldRunNow(config) at probe.time
GateProbe ==
  /\ probe.fn = "gate"
  /\ probe' = [probe EXCEPT
                 !.fn = "shouldRunNow",
                 !.result = shouldRunNow(GateConfig(probe.scheduleHour), probe.lastRunDate,
                                         probe.time)]
  /\ UNCHANGED << active, StoreVars, cfgLastRun, now, pc, cfgIdx, listing, sIdx, usage, results,
                  configResult, cur, emails, notified, lastOp, Counters, deferred, fetch >>

NextGate == GateProbe

SpecGate == InitGate /\ [][NextGate]_vars

\* C29: for a configuration with scheduling enabled, daily frequency and no
\* run in the last hour, shouldRunNow is true exactly when the current hour
\* is the hour held by the configuration record, for every hour 0..23.
C29_HourMatch ==
  probe.fn = "shouldRunNow" =>
    (probe.result <=> CurrentHour(probe.time) = probe.scheduleHour)

\* ------------------------------------------ the searches the lookups create
\* The search.create calls findNetSuiteTransaction makes, each with its record
\* type and its tranid filter value: none for a reference that is empty,
\* blank or without digits, the cash sale search only when the customer
\* payment search found nothing.
ReferenceSearches(merchantReference) ==
  IF IsBlank(merchantReference) THEN <<>>
  ELSE LET cleanRef == CleanRef(merchantReference) IN
       IF cleanRef = <<>> THEN <<>>
       ELSE << [type |-> "CustPymt", tranid |-> cleanRef] >>
            \o (IF SearchByTranId("CustPymt", cleanRef) = <<>>
                THEN << [type |-> "CashSale", tranid |-> cleanRef] >>
                ELSE <<>>)

\* variant: the auth code is pushed on the filter list whatever it holds
AuthFiltersUntested(authCode, transactionId) ==
  << [field |-> "authcode", value |-> authCode] >>
  \o (IF ~IsBlank(transactionId)
      THEN << [field |-> "pnrefnum", value |-> transactionId] >> ELSE <<>>)

\* authFilters of findNetSuiteTransactionByAuthCode, the 'OR' left out
AuthFilters(authCode, transactionId) ==
  (IF ~IsBlank(authCode)
   THEN << [field |-> "authcode", value |-> authCode] >> ELSE <<>>)
  \o (IF ~IsBlank(transactionId)
      THEN << [field |-> "pnrefnum", value |-> transactionId] >> ELSE <<>>)

\* the search.create calls findNetSuiteTransactionByAuthCode makes, each with
\* its filter list
AuthSearches(authCode, transactionId) ==
  IF IsBlank(authCode) /\ IsBlank(transactionId) THEN <<>>
  ELSE << AuthFilters(authCode, transactionId) >>

\* a transaction of a batch: its reference, auth code, id and amount
InitKeys ==
  /\ InitState
  /\ probe \in {[fn |-> "keys", merchantReference |-> r, authCode |-> a,
                 transactionId |-> t, amount |-> n,
                 byReference |-> NoTxn, referenceSearches |-> <<>>,
                 secondStrategy |-> FALSE,
                 byAuthCode |-> NoTxn, authSearches |-> <<>>] :
                  r \in {<<>>, <<" ">>, <<" ", " ">>, <<"x">>, <<"#", " ">>,
                         <<"#", "9">>, <<"8">>, <<"7", "7">>, <<"5">>},
                  a \in LookupAuthCodes,
                  t \in LookupIds \cup {<<" ">>},
                  n \in {200000, 500000}}

\* matchTransactions, one iteration up to the validation: the lookup by
\* reference, then the lookup by auth code when the first found nothing and
\* the transaction has an auth code or an id
KeysProbe ==
  /\ probe.fn = "keys"
  /\ LET first == findNetSuiteTransaction(probe.merchantReference)
         second == ~first.found /\ (probe.authCode # <<>> \/ probe.transactionId # <<>>)
     IN probe' = [probe EXCEPT
          !.fn = "matchTransactions",
          !.byReference = first,
          !.referenceSearches = ReferenceSearches(probe.merchantReference),
          !.secondStrategy = second,
          !.byAuthCode =
             IF second
             THEN findNetSuiteTransactionByAuthCode(probe.authCode, probe.amount,
                                                    probe.transactionId)
             ELSE NoTxn,
          !.authSearches =
             IF second THEN AuthSearches(probe.authCode, probe.transactionId) ELSE <<>>]
  /\ UNCHANGED << active, StoreVars, cfgLastRun, now, pc, cfgIdx, listing, sIdx, usage, results,
                  configResult, cur, emails, notified, lastOp, Counters, deferred, fetch >>

SpecKeys == InitKeys /\ [][KeysProbe]_vars

\* C33: a reference that is empty, blank or without digits gives no entry and
\* no search; the lookup by auth code gives no entry and no search when the
\* auth code and the id are both blank; no search filters on a blank auth
\* code.
C33_BlankKeysAreAbsent ==
  probe.fn = "matchTransactions" =>
    /\ (IsBlank(probe.merchantReference) \/ CleanRef(probe.merchantReference) = <<>>) =>
          (~probe.byReference.found /\ probe.referenceSearches = <<>>)
    /\ (IsBlank(probe.authCode) /\ IsBlank(probe.transactionId)) =>
          (~probe.byAuthCode.found /\ probe.authSearches = <<>>)
    /\ \A s \in 1..Len(probe.authSearches) :
          \A f \in 1..Len(probe.authSearches[s]) :
             ~IsBlank(probe.authSearches[s][f].value)

\* the second lookup ran with a blank auth code and an id, and searched on the
\* id alone
C33_Witness ==
  /\ probe.fn = "matchTransactions"
  /\ probe.merchantReference = <<"#", " ">>
  /\ probe.authCode = <<" ">>
  /\ probe.secondStrategy
  /\ Len(probe.authSearches) = 1
  /\ Len(probe.authSearches[1]) = 1
  /\ probe.authSearches[1][1].field = "pnrefnum"
  /\ probe.byAuthCode.found

\* ------------------------------------- createBankDeposit after a free batch
\* processSettlement goes on from matchTransactions to
\* createBankDeposit({settlementData, matchedTransactions, bankAccountId})
BatchDeposit ==
  /\ probe.fn = "matchTransactions"
  /\ LET d == createBankDeposit(SourceSettlements["S1"], probe.matched,
                                Configurations[1].bankAccount,
                                txnDetails, deposits, undeposited)
     IN /\ txnDetails' = d.store
        /\ deposits' = d.deposits
        /\ undeposited' = d.undeposited
        /\ lastOp' = Op("createBankDeposit", "S1", d.depositId # 0, "", d.depositId)
  /\ probe' = [probe EXCEPT !.fn = "createBankDeposit"]
  /\ UNCHANGED << active, settlements, cfgLastRun, now, pc, cfgIdx, listing,
                  sIdx, usage, results, configResult, cur, emails, notified,
                  Counters, deferred, fetch >>

SpecBatchDeposit == InitMatch /\ [][MatchBatch \/ BatchDeposit]_vars

\* C37: when createBankDeposit has returned a deposit id, every transaction
\* of the matched list whose payment is on that deposit is flagged in-deposit
\* and refers to the deposit, also when two of them name the same payment.
C37_DepositedAreFlagged ==
  (probe.fn = "createBankDeposit" /\ lastOp.depositId # 0) =>
    \A k \in 1..Len(probe.matched) :
       probe.matched[k].nsTransaction.internalId \in deposits[lastOp.depositId].payments =>
         /\ txnDetails[probe.matched[k].txnDetailId].inDeposit
         /\ txnDetails[probe.matched[k].txnDetailId].bankDeposit = lastOp.depositId

\* ------------------------------------------------ makeRequest, every answer
\* https.get is synchronous: every call of it comes back with a response or
\* with SSS_REQUEST_TIME_EXCEEDED
SpecRequestFair == SpecRequest /\ WF_vars(NextRequest)

\* C38: whatever the server answers, a top-level makeRequest makes at most
\* 2^(MAX_API_RETRIES + 1) - 1 attempts and then has returned the body of a
\* 2xx response or has thrown.
C38_MakeRequestTerminates ==
  /\ [](Len(probe.responses) <= 2^(MAX_API_RETRIES + 1) - 1)
  /\ [](probe.status = "returned" =>
          probe.responses[Len(probe.responses)] = "2xx")
  /\ <>(probe.status \in {"returned", "thrown"})

\* the call threw after the longest run of attempts there is
C38_Witness ==
  /\ probe.fn = "makeRequest"
  /\ probe.status = "thrown"
  /\ Len(probe.responses) = 2^(MAX_API_RETRIES + 1) - 1

TypeOK ==
  /\ pc \in {"idle", "config", "settlement", "deposit", "finish", "done",
            "fetch-config", "fetch-settlement", "fetch-deposit"}
  /\ undeposited \subseteq LedgerIds
  /\ usage \in UsageLevels
  /\ runs \in 0..MaxRuns

====
